---------------------------- MODULE Spec2Model ----------------------------
(***************************************************************************)
(* A model of po, a command-line tool that assembles a tree of commands    *)
(* from a user-level and a project-level po.yml, resolves their imports,   *)
(* merges them, and runs the selected command's script with an environment *)
(* built from its arguments and flags.                                     *)
(*                                                                         *)
(* Go values are modelled as follows.                                      *)
(*   string          a TLA+ string, or a sequence of one-character strings *)
(*                   where the code looks inside it (paths, flag tokens)   *)
(*   *T (pointer)    <<>> for nil, <<v>> for a pointer to v                *)
(*   map[string]T    [isnil |-> BOOLEAN, kv |-> function]                  *)
(*   []T             a sequence                                            *)
(***************************************************************************)
EXTENDS Integers, Sequences, FiniteSets, TLC

VARIABLES
    mA,       \* SpecMerge: the base document (receiver of Config.Merge)
    mB,       \* SpecMerge: the override document (argument of Config.Merge)
    mOut,     \* SpecMerge: the receiver after the call
    mPhase,   \* SpecMerge: "init", "merged", "merged twice", "panic"
    aDefs,    \* SpecArgs: the argument definitions of a command (Command.Args)
    aPhase,   \* SpecArgs: "parsed", "invalid", "valid", "built", "rejected", "accepted",
              \*           "bound", "panic"
    aArgs,    \* SpecArgs: the positional arguments of the call
    aErr,     \* SpecArgs: the error of Validate or of the count check
    aEnv,     \* SpecArgs: what argEnvVars and allArgsEnvVar return
    aUse,     \* SpecArgs: the words of the command's usage line (formatUsage)
    fDefs,    \* SpecFlags: the flag definitions of a command (Command.Flags)
    fSet,     \* SpecFlags: the command's pflag.FlagSet, in VisitAll order
    fCli,     \* SpecFlags: the flags given on the command line
    fPhase,   \* SpecFlags: "declared", "built", "badtype", "parsed",
              \*            "parseerror", "run"
    fEnv,     \* SpecFlags: what flagEnvVars returns
    fAll,     \* SpecFlags: what allFlagsEnvVar returns
    fs,         \* Spec: the configuration files, by absolute path
    cwd,        \* Spec: the working directory
    net,        \* Spec: what the server returns for a URL
    importsDir, \* Spec: <user cache>/po/imports
    scriptsDir, \* Spec: <user cache>/po/scripts
    environ,    \* Spec: the variables loadAllConfigs sets with os.Setenv
    invocation, \* Spec: the number of po processes started so far
    phase,      \* Spec: "idle", "user", "project", "loaded", "built", "exit"
                \*       ("off" in the other specifications)
    stack,      \* Spec: the activations of loadImports, the root one first
    parents,    \* Spec: the parents slice of the innermost activation
    userCfg,    \* Spec: loadAllConfigs' userCfg
    projectCfg, \* Spec: loadAllConfigs' projectCfg
    loaded,     \* Spec: what loadAllConfigs returned
    exitCode,   \* Spec: the exit status of the process, -1 while it runs
    argv,       \* Spec: the command line main executes: the command or option
                \* (a name is the sequence of its segments), then the arguments
    httpGets,   \* Spec: the URLs this process requested with http.Get
    execd,      \* Spec: the script file and environment the process exec'd
    rootCmd,    \* Spec: the commands added to the root command
    fetched,    \* Spec (history): per URL, "fetched" when an http.Get for it
                \* succeeded, "stored" when its bytes were then written to
                \* the cache, "none" from the last run of deleteCacheFiles on
    usage,      \* Spec: the full names in the list of commands the process printed
    cFiles,     \* SpecCache: the files of the user cache, by directory and name
    cProcs      \* SpecCache: the po processes that run at the same time

mvars == <<mA, mB, mOut, mPhase>>

avars == <<aDefs, aPhase, aArgs, aErr, aEnv, aUse>>

fvars == <<fDefs, fSet, fCli, fPhase, fEnv, fAll>>

pvars == <<fs, cwd, net, importsDir, scriptsDir, environ, invocation, phase,
           stack, parents, userCfg, projectCfg, loaded, exitCode, argv,
           httpGets, execd, rootCmd, fetched, usage>>

cvars == <<cFiles, cProcs>>

vars == <<mvars, avars, fvars, pvars, cvars>>

----------------------------------------------------------------------------
(* Go maps and pointers *)

NilMap == [isnil |-> TRUE, kv |-> <<>>]

GoMap(f) == [isnil |-> FALSE, kv |-> f]

Keys(m) == DOMAIN m.kv

HasKey(m, k) == k \in DOMAIN m.kv

NilPtr == <<>>

Ptr(v) == <<v>>

Deref(p) == p[1]

----------------------------------------------------------------------------
(* The document model: Argument, Flag, Command, Import, Config *)

Argument(var, desc, optional, atLeastP, atMostP) ==
    [Var |-> var, Desc |-> desc, Optional |-> optional,
     AtLeastP |-> atLeastP, AtMostP |-> atMostP]

Flag(desc, short, type, default, flagsPrefixP) ==
    [Desc |-> desc, Short |-> short, Type |-> type, Default |-> default,
     FlagsPrefixP |-> flagsPrefixP]

Command(short, long, args, flags, exec, script, commands) ==
    [Short |-> short, Long |-> long, Args |-> args, Flags |-> flags,
     Exec |-> exec, Script |-> script, Commands |-> commands]

Import(file, url) == [File |-> file, Url |-> url]

Config(imports, aliases, environment, commands) ==
    [Imports |-> imports, Aliases |-> aliases, Environment |-> environment,
     Commands |-> commands]

EmptyConfig == Config(<<>>, NilMap, NilMap, NilMap)

----------------------------------------------------------------------------
(* Merging.  Maps hold struct VALUES: `va, ok := a[k]` copies the struct,  *)
(* so what va.Merge(&vb) assigns to va's fields is lost when va goes out   *)
(* of scope, while what it stores into va.Flags and va.Commands lands in   *)
(* the map objects that a[k] shares with the copy.                         *)

\* Flag.Merge on the receiver *a.
FlagMerge(a, b) ==
    [a EXCEPT !.Desc    = IF b.Desc # "" THEN b.Desc ELSE @,
              !.Short   = IF b.Short # "" THEN b.Short ELSE @,
              !.Type    = IF b.Type # "" THEN b.Type ELSE @,
              !.Default = IF b.Default # "" THEN b.Default ELSE @]

\* mergeFlags panics when it stores into a nil map.
mergeFlagsPanics(a, b) ==
    a.isnil /\ Keys(b) # {}

\* mergeFlags: the map a after the loop.  For a key of both maps the merged
\* flag is the local copy va, which is dropped: a[k] keeps its value.
mergeFlags(a, b) ==
    IF Keys(b) = {} THEN a
    ELSE GoMap([k \in Keys(a) \cup Keys(b) |->
                   IF HasKey(a, k) THEN a.kv[k] ELSE b.kv[k]])

RECURSIVE mergeCommands(_, _)
RECURSIVE mergeCommandsPanics(_, _)

\* Command.Merge on the receiver *a (a pointer to some Command value).
CommandMerge(a, b) ==
    [a EXCEPT !.Short    = IF b.Short # "" THEN b.Short ELSE @,
              !.Long     = IF b.Long # "" THEN b.Long ELSE @,
              !.Script   = IF b.Script # "" THEN b.Script ELSE @,
              !.Args     = IF Len(b.Args) > 0 THEN b.Args ELSE @,
              !.Flags    = mergeFlags(a.Flags, b.Flags),
              !.Commands = mergeCommands(a.Commands, b.Commands)]

CommandMergePanics(a, b) ==
    \/ mergeFlagsPanics(a.Flags, b.Flags)
    \/ mergeCommandsPanics(a.Commands, b.Commands)

\* What a[k] holds after `va := a[k]; va.Merge(&vb)`: the fields of the copy
\* are lost, the two maps it shares with a[k] are the merged ones.
MergedInPlace(ak, bk) ==
    [ak EXCEPT !.Flags    = CommandMerge(ak, bk).Flags,
               !.Commands = CommandMerge(ak, bk).Commands]

mergeCommandsPanics(a, b) ==
    \/ a.isnil /\ Keys(b) # {}
    \/ \E k \in Keys(a) \cap Keys(b) : CommandMergePanics(a.kv[k], b.kv[k])

mergeCommands(a, b) ==
    IF Keys(b) = {} THEN a
    ELSE GoMap([k \in Keys(a) \cup Keys(b) |->
                   IF ~HasKey(a, k) THEN b.kv[k]
                   ELSE IF ~HasKey(b, k) THEN a.kv[k]
                   ELSE MergedInPlace(a.kv[k], b.kv[k])])

\* mergeStringMaps with a[k] = a[k] + vb for a key of both maps: the
\* override's text is added to the base's instead of replacing it.
mergeStringMapsAppend(a, b) ==
    GoMap([k \in Keys(a) \cup Keys(b) |->
              IF HasKey(a, k) /\ HasKey(b, k) THEN a.kv[k] \o b.kv[k]
              ELSE IF HasKey(b, k) THEN b.kv[k] ELSE a.kv[k]])

\* mergeStringMaps: a[k] = vb for every key of b.
mergeStringMaps(a, b) ==
    GoMap([k \in Keys(a) \cup Keys(b) |->
              IF HasKey(b, k) THEN b.kv[k] ELSE a.kv[k]])

\* Config.Merge on the receiver *a.  Imports are not merged.
ConfigMerge(a, b) ==
    [a EXCEPT
       !.Commands    = IF a.Commands.isnil THEN b.Commands
                       ELSE IF ~b.Commands.isnil
                            THEN mergeCommands(a.Commands, b.Commands)
                            ELSE @,
       !.Environment = IF a.Environment.isnil THEN b.Environment
                       ELSE IF ~b.Environment.isnil
                            THEN mergeStringMaps(a.Environment, b.Environment)
                            ELSE @,
       !.Aliases     = IF a.Aliases.isnil THEN b.Aliases
                       ELSE IF ~b.Aliases.isnil
                            THEN mergeStringMaps(a.Aliases, b.Aliases)
                            ELSE @]

\* Config.Merge reaches mergeCommands only when both command maps are non-nil.
ConfigMergePanics(a, b) ==
    /\ ~a.Commands.isnil
    /\ ~b.Commands.isnil
    /\ mergeCommandsPanics(a.Commands, b.Commands)

----------------------------------------------------------------------------
(* Arity: Amount, Argument, the count check and the slot filling *)

\* Amount.AtLeast
AmountAtLeast(arg) ==
    IF arg.AtLeastP = NilPtr THEN 1 ELSE Deref(arg.AtLeastP)

\* Amount.AtMost: 0 stands for "no maximum".
AmountAtMost(arg) ==
    IF arg.AtLeastP = NilPtr /\ arg.AtMostP = NilPtr THEN 1
    ELSE IF arg.AtMostP = NilPtr THEN 0
    ELSE Deref(arg.AtMostP)

\* Amount.Validate: the error, "" for nil.
AmountValidate(arg) ==
    IF arg.AtMostP # NilPtr /\ Deref(arg.AtMostP) < 0
    THEN "at_most cannot be less than zero"
    ELSE IF /\ arg.AtMostP # NilPtr
            /\ arg.AtLeastP # NilPtr
            /\ Deref(arg.AtLeastP) > Deref(arg.AtMostP)
    THEN "at_most cannot be greater than at_least"
    ELSE IF arg.AtLeastP # NilPtr /\ Deref(arg.AtLeastP) < 0
    THEN "at_least cannot be less than zero"
    ELSE ""

\* Argument.AtLeast
ArgAtLeast(arg) ==
    IF arg.Optional THEN 0 ELSE AmountAtLeast(arg)

\* Argument.AtMost
ArgAtMost(arg) == AmountAtMost(arg)

\* Argument.Validate
ArgValidate(arg) == AmountValidate(arg)

\* The loop over command.Args in Command.Validate: the first error, or "".
RECURSIVE ValidateArgs(_, _)
ValidateArgs(defs, i) ==
    IF i > Len(defs) THEN ""
    ELSE IF ArgValidate(defs[i]) # "" THEN ArgValidate(defs[i])
    ELSE ValidateArgs(defs, i + 1)

RECURSIVE minArgLengthFrom(_, _)
minArgLengthFrom(defs, i) ==
    IF i > Len(defs) THEN 0
    ELSE ArgAtLeast(defs[i]) + minArgLengthFrom(defs, i + 1)

minArgLength(defs) == minArgLengthFrom(defs, 1)

\* maxArgLength: -1 as soon as one definition has AtMost() = 0.
RECURSIVE maxArgLengthFrom(_, _, _)
maxArgLengthFrom(defs, i, maxLength) ==
    IF i > Len(defs) THEN maxLength
    ELSE IF ArgAtMost(defs[i]) = 0 THEN -1
    ELSE maxArgLengthFrom(defs, i + 1, maxLength + ArgAtMost(defs[i]))

maxArgLength(defs) == maxArgLengthFrom(defs, 1, 0)

NoError == [msg |-> "", n |-> 0, m |-> 0]

\* cobra.ArbitraryArgs in the place of the closure: every count passes.
argsMatchDefsArbitrary(defs, n) == NoError

\* The closure argsMatchDefs returns, applied to a call with n arguments.
argsMatchDefs(defs, n) ==
    LET minLength == minArgLength(defs)
        maxLength == maxArgLength(defs)
    IN  IF minLength = 0 /\ maxLength = 0 /\ n > 0
        THEN [msg |-> "should have no arguments", n |-> 0, m |-> 0]
        ELSE IF maxLength > 0 /\ minLength = maxLength /\ n # maxLength
        THEN [msg |-> "requires exactly", n |-> maxLength, m |-> 0]
        ELSE IF maxLength > 0 /\ minLength > 0 /\ (n < minLength \/ n > maxLength)
        THEN [msg |-> "requires between", n |-> minLength, m |-> maxLength]
        ELSE IF maxLength > 0 /\ n > maxLength
        THEN [msg |-> "requires at most", n |-> maxLength, m |-> 0]
        ELSE IF n < minLength
        THEN [msg |-> "requires at least", n |-> minLength, m |-> 0]
        ELSE NoError

\* strings.Join(vals, " "), a string being the sequence of its pieces
RECURSIVE JoinSpace(_)
JoinSpace(vals) ==
    IF Len(vals) = 0 THEN <<>>
    ELSE IF Len(vals) = 1 THEN <<vals[1]>>
    ELSE <<vals[1], " ">> \o JoinSpace(Tail(vals))

\* envVarPair
envVarPair(name, vals) == [name |-> name, value |-> JoinSpace(vals)]

\* argEnvVars without the line required -= def.AtLeast(): the reserve of a
\* definition still holds its own minimum.
RECURSIVE argCursorOwnMinReserved(_, _, _, _, _)
argCursorOwnMinReserved(defs, n, i, a, required) ==
    IF i > Len(defs) THEN <<>>
    ELSE LET maxSlice == n - required
             atMost == ArgAtMost(defs[i])
             aNext0 == IF atMost = 0 THEN a + maxSlice ELSE a + atMost
             aNext == IF aNext0 > maxSlice THEN maxSlice ELSE aNext0
         IN  <<[a |-> a, aNext |-> aNext]>>
                 \o argCursorOwnMinReserved(defs, n, i + 1, aNext, required)

\* The cursor of argEnvVars: for each definition the bounds a and aNext of
\* the slice args[a:aNext] it is bound to.
RECURSIVE argCursor(_, _, _, _, _)
argCursor(defs, n, i, a, required) ==
    IF i > Len(defs) THEN <<>>
    ELSE LET req == required - ArgAtLeast(defs[i])
             maxSlice == n - req
             atMost == ArgAtMost(defs[i])
             aNext0 == IF atMost = 0 THEN a + maxSlice ELSE a + atMost
             aNext == IF aNext0 > maxSlice THEN maxSlice ELSE aNext0
         IN  <<[a |-> a, aNext |-> aNext]>> \o argCursor(defs, n, i + 1, aNext, req)

argSlices(defs, n) == argCursor(defs, n, 1, 0, minArgLength(defs))

\* args[a:aNext] panics unless 0 <= a <= aNext <= len(args).
SlicePanics(sl, n) == ~(0 <= sl.a /\ sl.a <= sl.aNext /\ sl.aNext <= n)

argEnvVarsPanics(defs, args) ==
    \E i \in 1..Len(defs) : SlicePanics(argSlices(defs, Len(args))[i], Len(args))

\* argEnvVars: one NAME=value pair per definition.
argEnvVars(defs, args) ==
    [i \in 1..Len(defs) |->
        envVarPair(defs[i].Var,
                   SubSeq(args, argSlices(defs, Len(args))[i].a + 1,
                          argSlices(defs, Len(args))[i].aNext))]

\* allArgsEnvVar
allArgsEnvVar(args) == [name |-> "ARGS", value |-> JoinSpace(args)]

----------------------------------------------------------------------------
(* Flags.  The strings the code concatenates and trims are sequences of    *)
(* one-character strings.                                                  *)

Digits == <<"0", "1", "2", "3", "4", "5", "6", "7", "8", "9">>

DigitValue(c) == CHOOSE d \in 0..9 : Digits[d + 1] = c

IsDigit(c) == \E d \in 0..9 : Digits[d + 1] = c

RECURSIVE DigitsValue(_, _)
DigitsValue(s, acc) ==
    IF Len(s) = 0 THEN acc
    ELSE DigitsValue(Tail(s), 10 * acc + DigitValue(Head(s)))

\* strconv.Atoi: an optional sign, then one or more decimal digits.
Atoi(s) ==
    LET body == IF Len(s) > 0 /\ Head(s) \in {"+", "-"} THEN Tail(s) ELSE s
    IN  IF Len(body) > 0 /\ \A i \in 1..Len(body) : IsDigit(body[i])
        THEN [ok |-> TRUE,
              n |-> IF Head(s) = "-" THEN 0 - DigitsValue(body, 0)
                    ELSE DigitsValue(body, 0)]
        ELSE [ok |-> FALSE, n |-> 0]

RECURSIVE NatToString(_)
NatToString(n) ==
    IF n < 10 THEN <<Digits[n + 1]>>
    ELSE Append(NatToString(n \div 10), Digits[(n % 10) + 1])

\* strconv.Itoa, the String() of pflag's int value
Itoa(n) == IF n < 0 THEN <<"-">> \o NatToString(0 - n) ELSE NatToString(n)

sTrue == <<"t", "r", "u", "e">>

sFalse == <<"f", "a", "l", "s", "e">>

\* strconv.ParseBool
ParseBool(s) ==
    IF s \in {<<"1">>, <<"t">>, <<"T">>, <<"T", "R", "U", "E">>, sTrue,
              <<"T", "r", "u", "e">>}
    THEN [ok |-> TRUE, b |-> TRUE]
    ELSE IF s \in {<<"0">>, <<"f">>, <<"F">>, <<"F", "A", "L", "S", "E">>, sFalse,
                   <<"F", "a", "l", "s", "e">>}
    THEN [ok |-> TRUE, b |-> FALSE]
    ELSE [ok |-> FALSE, b |-> FALSE]

\* strconv.FormatBool, the String() of pflag's bool value
FormatBool(b) == IF b THEN sTrue ELSE sFalse

\* parseInt
parseInt(s) == IF Atoi(s).ok THEN Atoi(s).n ELSE 0

\* parseBool
parseBool(s) == IF ParseBool(s).ok THEN ParseBool(s).b ELSE FALSE

\* strings.Trim(s, " ")
RECURSIVE TrimLeft(_)
TrimLeft(s) == IF Len(s) > 0 /\ Head(s) = " " THEN TrimLeft(Tail(s)) ELSE s

RECURSIVE TrimRight(_)
TrimRight(s) ==
    IF Len(s) > 0 /\ s[Len(s)] = " " THEN TrimRight(SubSeq(s, 1, Len(s) - 1)) ELSE s

Trim(s) == TrimRight(TrimLeft(s))

\* strings.Join(tokens, " ") on character sequences
RECURSIVE JoinTokens(_)
JoinTokens(tokens) ==
    IF Len(tokens) = 0 THEN <<>>
    ELSE IF Len(tokens) = 1 THEN tokens[1]
    ELSE tokens[1] \o <<" ">> \o JoinTokens(Tail(tokens))

nBar == <<"b", "a", "r">>

nHelp == <<"h", "e", "l", "p">>

nName == <<"n", "a", "m", "e">>

\* The flag names of the model in the order of sort.Strings, the order in
\* which FlagSet.VisitAll visits them.
NameOrder == <<nBar, nHelp, nName>>

\* A pflag.Flag: Value is the String() of its value.
PFlag(name, type, value, defValue, changed) ==
    [Name |-> name, Type |-> type, Value |-> value, DefValue |-> defValue,
     Changed |-> changed]

\* cobra's help flag, present in cmd.Flags() of every command that runs.
HelpFlag == PFlag(nHelp, "bool", sFalse, sFalse, FALSE)

\* What StringP, IntP, BoolP register for a declared flag.
NewPFlag(name, flag) ==
    IF flag.Type = "string" THEN PFlag(name, "string", flag.Default, flag.Default, FALSE)
    ELSE IF flag.Type = "int"
    THEN PFlag(name, "int", Itoa(parseInt(flag.Default)), Itoa(parseInt(flag.Default)), FALSE)
    ELSE PFlag(name, "bool", FormatBool(parseBool(flag.Default)),
               FormatBool(parseBool(flag.Default)), FALSE)

\* buildFlags: the error, "" for nil.
buildFlagsError(flags) ==
    IF \E k \in Keys(flags) : flags.kv[k].Type \notin {"string", "int", "bool"}
    THEN "no such type"
    ELSE ""

\* buildFlags: the flag set of the command, with cobra's help flag.
RECURSIVE buildFlagsFrom(_, _)
buildFlagsFrom(flags, i) ==
    IF i > Len(NameOrder) THEN <<>>
    ELSE IF NameOrder[i] = nHelp THEN <<HelpFlag>> \o buildFlagsFrom(flags, i + 1)
    ELSE IF HasKey(flags, NameOrder[i])
    THEN <<NewPFlag(NameOrder[i], flags.kv[NameOrder[i]])>> \o buildFlagsFrom(flags, i + 1)
    ELSE buildFlagsFrom(flags, i + 1)

buildFlags(flags) == buildFlagsFrom(flags, 1)

\* pflag's Set of one flag: the error of the value's Set, "" for nil.
SetError(f, value) ==
    IF f.Type = "int" /\ ~Atoi(value).ok THEN "invalid argument"
    ELSE IF f.Type = "bool" /\ ~ParseBool(value).ok THEN "invalid argument"
    ELSE ""

\* pflag's Set of one flag: the flag afterwards.
SetFlag(f, value) ==
    [f EXCEPT !.Changed = TRUE,
              !.Value = IF f.Type = "int" THEN Itoa(Atoi(value).n)
                        ELSE IF f.Type = "bool" THEN FormatBool(ParseBool(value).b)
                        ELSE value]

\* visitFlagsWithValues: the flags fn is called with, in order.
visitFlagsWithValues(flags) ==
    SelectSeq(flags, LAMBDA f : f.Changed \/ f.DefValue # <<>>)

\* flagValueOrDefault
flagValueOrDefault(f) == IF f.Changed THEN f.Value ELSE f.DefValue

\* isFalseBoolFlag
isFalseBoolFlag(f) == f.Type = "bool" /\ f.Value = sFalse

\* flagEnvVars: one NAME=value pair per visited flag that is no false bool.
flagEnvVars(flags) ==
    LET kept == SelectSeq(visitFlagsWithValues(flags), LAMBDA f : ~isFalseBoolFlag(f))
    IN  [i \in 1..Len(kept) |-> [name |-> kept[i].Name, value |-> flagValueOrDefault(kept[i])]]

\* flagsPrefix
flagsPrefix(name, flag) ==
    IF flag.FlagsPrefixP = NilPtr THEN <<"-", "-">> \o name \o <<" ">>
    ELSE Deref(flag.FlagsPrefixP)

\* flagDefs[f.Name]: the zero Flag for a name that is not declared.
FlagDefOf(flagDefs, name) ==
    IF HasKey(flagDefs, name) THEN flagDefs.kv[name]
    ELSE Flag("", "", "", <<>>, NilPtr)

\* allFlagsEnvVar: the tokens args[:i].
allFlagsTokens(flagDefs, flags) ==
    LET visited == visitFlagsWithValues(flags)
        kept == SelectSeq(visited, LAMBDA f : ~(f.Type = "bool" /\ f.Value = sFalse))
    IN  [i \in 1..Len(kept) |->
            IF kept[i].Type = "bool"
            THEN Trim(flagsPrefix(kept[i].Name, FlagDefOf(flagDefs, kept[i].Name)))
            ELSE Trim(flagsPrefix(kept[i].Name, FlagDefOf(flagDefs, kept[i].Name))
                      \o flagValueOrDefault(kept[i]))]

\* allFlagsEnvVar
allFlagsEnvVar(flagDefs, flags) ==
    [name |-> "FLAGS", value |-> JoinTokens(allFlagsTokens(flagDefs, flags))]

----------------------------------------------------------------------------
(* SpecMerge: Config.Merge applied to pairs of parsed documents.            *)
(* Every string of a document carries the side it comes from ("u" for the  *)
(* base, "p" for the override), so a merged value tells its origin.        *)

SideArgs(t) ==
    IF t = "u"
    THEN {<<>>, <<Argument("a1", t, FALSE, NilPtr, NilPtr),
                  Argument("a2", t, TRUE, NilPtr, NilPtr)>>}
    ELSE {<<>>, <<Argument("b1", t, FALSE, NilPtr, NilPtr)>>}

SideFlags(t) ==
    IF t = "u"
    THEN {NilMap, GoMap("f" :> Flag(t, "", "string", t, NilPtr))}
    ELSE {NilMap, GoMap(("f" :> Flag(t, "", "string", t, NilPtr))
                        @@ ("g" :> Flag(t, "", "bool", "", NilPtr)))}

\* The scalar fields of a command: none set, all set, only one set.
SideScalars(t) ==
    {[Short |-> "", Long |-> "", Script |-> ""],
     [Short |-> t, Long |-> t, Script |-> t],
     [Short |-> t, Long |-> "", Script |-> ""],
     [Short |-> "", Long |-> "", Script |-> t]}

SideChildren(t) ==
    {NilMap,
     GoMap("d" :> Command(t, "", <<>>, NilMap, "", t, NilMap)),
     IF t = "u"
     THEN GoMap("d" :> Command("", "", <<>>, GoMap("f" :> Flag(t, "", "int", "", NilPtr)),
                               "", t, NilMap))
     ELSE GoMap(("d" :> Command("", t, <<>>, GoMap("g" :> Flag(t, "", "int", "", NilPtr)),
                                "", "", NilMap))
                @@ ("e" :> Command(t, "", <<>>, NilMap, "", t, NilMap)))}

SideCommand(t) ==
    {Command(sc.Short, sc.Long, ar, fl, "", sc.Script, ch) :
        sc \in SideScalars(t), ar \in SideArgs(t), fl \in SideFlags(t),
        ch \in SideChildren(t)}

SideCommands(t) ==
    {NilMap} \cup {GoMap("c" :> c) : c \in SideCommand(t)}

SideStringMaps(t) ==
    {<<NilMap, NilMap>>,
     <<GoMap("k" :> t), NilMap>>,
     <<GoMap(("k" :> t) @@ (t :> t)), GoMap("g" :> t)>>}

SideDocs(t) ==
    {Config(<<>>, sm[2], sm[1], cs) : sm \in SideStringMaps(t), cs \in SideCommands(t)}

\* The variables of the specifications that are not running.
IdleMerge ==
    /\ mA = EmptyConfig
    /\ mB = EmptyConfig
    /\ mOut = EmptyConfig
    /\ mPhase = "idle"

IdleArgs ==
    /\ aDefs = <<>>
    /\ aPhase = "idle"
    /\ aArgs = <<>>
    /\ aErr = NoError
    /\ aEnv = <<>>
    /\ aUse = <<>>

IdleFlags ==
    /\ fDefs = NilMap
    /\ fSet = <<>>
    /\ fCli = <<>>
    /\ fPhase = "idle"
    /\ fEnv = <<>>
    /\ fAll = <<>>

IdleCache ==
    /\ cFiles = <<>>
    /\ cProcs = <<>>

IdlePo ==
    /\ fs = <<>>
    /\ cwd = <<"/">>
    /\ net = <<>>
    /\ importsDir = [exists |-> FALSE, files |-> <<>>]
    /\ scriptsDir = [exists |-> FALSE, files |-> <<>>]
    /\ environ = <<>>
    /\ invocation = 0
    /\ phase = "off"
    /\ stack = <<>>
    /\ parents = <<>>
    /\ userCfg = NilPtr
    /\ projectCfg = NilPtr
    /\ loaded = [cfg |-> NilPtr, err |-> ""]
    /\ exitCode = -1
    /\ argv = <<>>
    /\ httpGets = <<>>
    /\ execd = NilPtr
    /\ rootCmd = {}
    /\ fetched = <<>>
    /\ usage = {}

InitMerge ==
    /\ mA \in SideDocs("u")
    /\ mB \in SideDocs("p")
    /\ mOut = EmptyConfig
    /\ mPhase = "init"
    /\ IdleArgs
    /\ IdleFlags
    /\ IdlePo
    /\ IdleCache

\* userCfg.Merge(projectCfg) completes.
MergeDocs ==
    /\ mPhase = "init"
    /\ ~ConfigMergePanics(mA, mB)
    /\ mOut' = ConfigMerge(mA, mB)
    /\ mPhase' = "merged"
    /\ UNCHANGED <<mA, mB, avars, fvars, pvars, cvars>>

\* userCfg.Merge(projectCfg) stores into a nil map: the runtime panics.
MergePanic ==
    /\ mPhase = "init"
    /\ ConfigMergePanics(mA, mB)
    /\ mPhase' = "panic"
    /\ UNCHANGED <<mA, mB, mOut, avars, fvars, pvars, cvars>>

\* The merged receiver is merged with the same override once more.
MergeAgain ==
    /\ mPhase = "merged"
    /\ IF ConfigMergePanics(mOut, mB)
       THEN /\ mPhase' = "panic"
            /\ UNCHANGED mOut
       ELSE /\ mOut' = ConfigMerge(mOut, mB)
            /\ mPhase' = "merged twice"
    /\ UNCHANGED <<mA, mB, avars, fvars, pvars, cvars>>

NextMerge ==
    \/ MergeDocs
    \/ MergePanic
    \/ MergeAgain

SpecMerge == InitMerge /\ [][NextMerge]_vars

\* strings.ToUpper on the variable names the documents use.
ToUpper(s) ==
    CASE s = "v1" -> "V1"
      [] s = "v2" -> "V2"
      [] s = "v3" -> "V3"
      [] s = "v4" -> "V4"
      [] s = "name" -> "NAME"
      [] OTHER -> s

\* formatArgDef without the brackets of an argument that may be left out.
formatArgDefNoBrackets(def) ==
    IF ArgAtLeast(def) > 1 \/ ArgAtMost(def) # 1
    THEN <<ToUpper(def.Var), "...">>
    ELSE <<ToUpper(def.Var)>>

\* formatArgDef: the placeholder of one argument definition, as the pieces
\* the Sprintf calls put together.
formatArgDef(def) ==
    LET arg == IF ArgAtLeast(def) > 1 \/ ArgAtMost(def) # 1
               THEN <<ToUpper(def.Var), "...">>
               ELSE <<ToUpper(def.Var)>>
    IN  IF ArgAtLeast(def) < 1 THEN <<"[">> \o arg \o <<"]">> ELSE arg

\* formatUsage: the command name and one placeholder per definition; the
\* line is held as the words that its spaces separate.
formatUsage(name, defs) ==
    <<name>> \o [i \in 1..Len(defs) |-> formatArgDef(defs[i])]

----------------------------------------------------------------------------
(* SpecArgs: a command's argument definitions are parsed and validated,    *)
(* the command is called with some positional arguments, the count check   *)
(* runs and, when it passes, the run closure binds the arguments.          *)

MaxAmount == 2

MaxDefs == 2

MaxArgs == 4

AmountPool == {NilPtr} \cup {Ptr(v) : v \in -1..MaxAmount}

ArgVars == <<"v1", "v2", "v3", "v4">>

Tokens == <<"t1", "t2", "t3", "t4", "t5", "t6">>

\* The lists of at most n argument definitions, as yaml can declare them.
RECURSIVE ArgLists(_)
ArgLists(n) ==
    IF n = 0 THEN {<<>>}
    ELSE ArgLists(n - 1) \cup
         {Append(l, Argument(ArgVars[n], "", o, al, am)) :
             l \in {x \in ArgLists(n - 1) : Len(x) = n - 1},
             o \in BOOLEAN, al \in AmountPool, am \in AmountPool}

InitArgs ==
    /\ aDefs \in ArgLists(MaxDefs)
    /\ aPhase = "parsed"
    /\ aArgs = <<>>
    /\ aErr = NoError
    /\ aEnv = <<>>
    /\ aUse = <<>>
    /\ IdleMerge
    /\ IdleFlags
    /\ IdlePo
    /\ IdleCache

\* Command.Validate on the parsed command: parseConfig fails on an error.
ValidateCommand ==
    /\ aPhase = "parsed"
    /\ aPhase' = IF ValidateArgs(aDefs, 1) = "" THEN "valid" ELSE "invalid"
    /\ aErr' = [msg |-> ValidateArgs(aDefs, 1), n |-> 0, m |-> 0]
    /\ UNCHANGED <<aDefs, aArgs, aEnv, aUse, mvars, fvars, pvars, cvars>>

\* buildCommand sets the cobra command's Use line from the validated command.
FormatUsage ==
    /\ aPhase = "valid"
    /\ aPhase' = "built"
    /\ aUse' = formatUsage(<<"c">>, aDefs)
    /\ UNCHANGED <<aDefs, aArgs, aErr, aEnv, mvars, fvars, pvars, cvars>>

\* cobra calls the command's Args check with the positional arguments.
CheckArgs ==
    /\ aPhase = "built"
    /\ \E n \in 0..MaxArgs :
        /\ aArgs' = SubSeq(Tokens, 1, n)
        /\ aErr' = argsMatchDefs(aDefs, n)
        /\ aPhase' = IF argsMatchDefs(aDefs, n) = NoError THEN "accepted" ELSE "rejected"
    /\ UNCHANGED <<aDefs, aEnv, aUse, mvars, fvars, pvars, cvars>>

\* The run closure: argEnvVars, then allArgsEnvVar.  A slice expression of
\* argEnvVars that is out of range panics.
BindArgs ==
    /\ aPhase = "accepted"
    /\ IF argEnvVarsPanics(aDefs, aArgs)
       THEN /\ aPhase' = "panic"
            /\ aEnv' = aEnv
       ELSE /\ aPhase' = "bound"
            /\ aEnv' = Append(argEnvVars(aDefs, aArgs), allArgsEnvVar(aArgs))
    /\ UNCHANGED <<aDefs, aArgs, aErr, aUse, mvars, fvars, pvars, cvars>>

NextArgs ==
    \/ ValidateCommand
    \/ FormatUsage
    \/ CheckArgs
    \/ BindArgs

SpecArgs == InitArgs /\ [][NextArgs]_vars

----------------------------------------------------------------------------
(* SpecFlags: a command's declared flags are registered, the command line  *)
(* sets some of them, and the run closure builds the flag variables.       *)

sBob == <<"B", "o", "b">>

sWorld == <<"W", "o", "r", "l", "d">>

FlagTypes == {"string", "int", "bool", "float"}

DefaultPool == {<<>>, sWorld, <<"5">>, sTrue}

PrefixPool == {NilPtr, Ptr(<<"-", "-", "b", "=">>)}

CliValues == {<<>>, sBob, <<"5">>, sTrue, sFalse}

\* The shorthand letter each name is declared with ("" for none).
ShortOf(name) == IF name = nName THEN "n" ELSE ""

FlagDecls(name) ==
    {Flag("", ShortOf(name), ty, df, px) :
        ty \in FlagTypes, df \in DefaultPool, px \in PrefixPool}

FlagDefsPool ==
    {NilMap}
    \cup {GoMap(nBar :> b) : b \in FlagDecls(nBar)}
    \cup {GoMap(nName :> n) : n \in FlagDecls(nName)}
    \cup {GoMap((nBar :> b) @@ (nName :> n)) : b \in FlagDecls(nBar), n \in FlagDecls(nName)}

\* What the command line says of one flag: nothing, --name=value, or
\* -n value by its shorthand.
CliOptions ==
    {[set |-> FALSE, form |-> "long", value |-> <<>>]}
    \cup {[set |-> TRUE, form |-> fm, value |-> v] :
             fm \in {"long", "short"}, v \in CliValues}

\* The command lines of the model: each declared flag at most once, the
\* short form only for a flag that declares a shorthand.
CommandLines(flagDefs) ==
    {cl \in [Keys(flagDefs) -> CliOptions] :
        \A k \in Keys(flagDefs) : cl[k].form = "short" => flagDefs.kv[k].Short # ""}

\* The flag a command-line entry sets: looked up by name, or by shorthand.
CliTarget(flagDefs, k, form) ==
    IF form = "long" THEN k
    ELSE CHOOSE t \in Keys(flagDefs) : flagDefs.kv[t].Short = flagDefs.kv[k].Short

\* The entries of the command line that set the flag called name.
CliSetters(flagDefs, cl, name) ==
    {k \in Keys(flagDefs) : cl[k].set /\ CliTarget(flagDefs, k, cl[k].form) = name}

\* FlagSet.Parse: the error of the first Set that fails, "" for nil.
ParseError(flagDefs, flags, cl) ==
    IF \E i \in 1..Len(flags) : \E k \in CliSetters(flagDefs, cl, flags[i].Name) :
          SetError(flags[i], cl[k].value) # ""
    THEN "invalid argument"
    ELSE ""

\* FlagSet.Parse: the flag set afterwards.
ParseFlagSet(flagDefs, flags, cl) ==
    [i \in 1..Len(flags) |->
        IF CliSetters(flagDefs, cl, flags[i].Name) # {}
        THEN SetFlag(flags[i],
                     cl[CHOOSE k \in CliSetters(flagDefs, cl, flags[i].Name) : TRUE].value)
        ELSE flags[i]]

InitFlags ==
    /\ fDefs \in FlagDefsPool
    /\ fSet = <<>>
    /\ fCli = <<>>
    /\ fPhase = "declared"
    /\ fEnv = <<>>
    /\ fAll = <<>>
    /\ IdleMerge
    /\ IdleArgs
    /\ IdlePo
    /\ IdleCache

\* buildCommand: buildFlags(&cmd, command.Flags)
BuildFlags ==
    /\ fPhase = "declared"
    /\ IF buildFlagsError(fDefs) # ""
       THEN /\ fPhase' = "badtype"
            /\ fSet' = fSet
       ELSE /\ fPhase' = "built"
            /\ fSet' = buildFlags(fDefs)
    /\ UNCHANGED <<fDefs, fCli, fEnv, fAll, mvars, avars, pvars, cvars>>

\* rootCmd.ExecuteC: cobra parses the flags of the command line.
ParseCommandLine ==
    /\ fPhase = "built"
    /\ \E cl \in CommandLines(fDefs) :
        /\ fCli' = cl
        /\ IF ParseError(fDefs, fSet, cl) # ""
           THEN /\ fPhase' = "parseerror"
                /\ fSet' = fSet
           ELSE /\ fPhase' = "parsed"
                /\ fSet' = ParseFlagSet(fDefs, fSet, cl)
    /\ UNCHANGED <<fDefs, fEnv, fAll, mvars, avars, pvars, cvars>>

\* The run closure: flagEnvVars and allFlagsEnvVar.
RunFlags ==
    /\ fPhase = "parsed"
    /\ fEnv' = flagEnvVars(fSet)
    /\ fAll' = allFlagsEnvVar(fDefs, fSet).value
    /\ fPhase' = "run"
    /\ UNCHANGED <<fDefs, fSet, fCli, mvars, avars, pvars, cvars>>

NextFlags ==
    \/ BuildFlags
    \/ ParseCommandLine
    \/ RunFlags

SpecFlags == InitFlags /\ [][NextFlags]_vars

----------------------------------------------------------------------------
(* Paths.  A path string is the sequence of its components: an absolute    *)
(* path starts with the component "/", the empty string is <<>>.           *)

\* path.IsAbs
IsAbs(p) == Len(p) > 0 /\ p[1] = "/"

\* filepath.Clean, component by component: "." is dropped, ".." removes the
\* component before it, "/.." is "/", a leading ".." of a relative path stays.
RECURSIVE CleanFrom(_, _, _)
CleanFrom(p, i, out) ==
    IF i > Len(p) THEN out
    ELSE IF p[i] = "." THEN CleanFrom(p, i + 1, out)
    ELSE IF p[i] # ".." THEN CleanFrom(p, i + 1, Append(out, p[i]))
    ELSE IF out = <<>> \/ out[Len(out)] = ".." THEN CleanFrom(p, i + 1, Append(out, ".."))
    ELSE IF out[Len(out)] = "/" THEN CleanFrom(p, i + 1, out)
    ELSE CleanFrom(p, i + 1, SubSeq(out, 1, Len(out) - 1))

Clean(p) ==
    IF CleanFrom(p, 1, <<>>) = <<>> THEN <<".">> ELSE CleanFrom(p, 1, <<>>)

\* filepath.Join(a, b): the non-empty elements joined by a separator, cleaned.
Join(a, b) ==
    IF a = <<>> /\ b = <<>> THEN <<>>
    ELSE IF a = <<>> THEN Clean(b)
    ELSE Clean(a \o (IF IsAbs(b) THEN Tail(b) ELSE b))

\* filepath.Dir
Dir(p) ==
    IF p = <<>> THEN <<".">>
    ELSE IF p = <<"/">> THEN p
    ELSE Clean(SubSeq(p, 1, Len(p) - 1))

configFileName == "po.yml"

\* userConfigDir(): $XDG_CONFIG_HOME, or $HOME/.config
userConfigDir == <<"/", "h">>

userConfigPath == Join(Join(userConfigDir, <<"po">>), <<configFileName>>)

isRootPath(p) == p = Join(p, <<"..">>)

poPathEnvVar == "POPATH"

poHomeEnvVar == "POHOME"

defaultExecPath == "/bin/sh"

----------------------------------------------------------------------------
(* Files.  The bytes of a file are the document they parse to, or bytes    *)
(* that are not a YAML document.                                           *)

AbsentFile == [kind |-> "absent"]

Garbage == [kind |-> "garbage"]

Yaml(cfg) == [kind |-> "yaml", cfg |-> cfg]

\* The file a path names for the process: a relative path is taken from the
\* working directory.
Resolve(path) == IF IsAbs(path) THEN Clean(path) ELSE Clean(cwd \o path)

FileAt(path) ==
    IF path # <<>> /\ Resolve(path) \in DOMAIN fs THEN fs[Resolve(path)]
    ELSE AbsentFile

\* os.Stat(path) does not report IsNotExist
Exists(path) == FileAt(path).kind # "absent"

\* A directory of the user cache: whether it exists, and its files by name.
NoDir == [exists |-> FALSE, files |-> <<>>]

\* sha1HexString: distinct texts have distinct names.
sha1HexString(s) == <<"sha1", s>>

HasFile(dir, name) == dir.exists /\ name \in DOMAIN dir.files

WriteFile(dir, name, dat) ==
    [dir EXCEPT !.files = (name :> dat) @@ dir.files]

\* os.MkdirAll
MkdirAll(dir) == [dir EXCEPT !.exists = TRUE]

----------------------------------------------------------------------------
(* Parsing and validation of a document *)

nilError == ""

\* Import.Validate
ImportValidate(imp) ==
    IF imp.File = <<>> /\ imp.Url = ""
    THEN "import requires a 'url' or 'file' key set"
    ELSE IF imp.File # <<>> /\ imp.Url # ""
    THEN "import cannot have both a 'url' and 'file' key set"
    ELSE nilError

\* commandNameRegexp.MatchString, on the names documents use here
InvalidNames == {"", "-x", "1x", "group:subtask"}

\* validateCommandName without the pattern: every name passes.
validateCommandNameAny(name) == nilError

validateCommandName(name) ==
    IF name \in InvalidNames THEN "invalid command name" ELSE nilError

\* Command.Validate
RECURSIVE CommandValidate(_)
CommandValidate(command) ==
    IF \E name \in Keys(command.Commands) : validateCommandName(name) # nilError
    THEN "invalid command name"
    ELSE IF \E name \in Keys(command.Commands) :
               CommandValidate(command.Commands.kv[name]) # nilError
    THEN CommandValidate(command.Commands.kv[
             CHOOSE name \in Keys(command.Commands) :
                 CommandValidate(command.Commands.kv[name]) # nilError])
    ELSE ValidateArgs(command.Args, 1)

\* Config.Validate
ConfigValidate(config) ==
    IF \E i \in 1..Len(config.Imports) : ImportValidate(config.Imports[i]) # nilError
    THEN ImportValidate(config.Imports[
             CHOOSE i \in 1..Len(config.Imports) :
                 ImportValidate(config.Imports[i]) # nilError])
    ELSE IF \E name \in Keys(config.Aliases) \cup Keys(config.Commands) :
               validateCommandName(name) # nilError
    THEN "invalid command name"
    ELSE IF \E name \in Keys(config.Commands) :
               CommandValidate(config.Commands.kv[name]) # nilError
    THEN CommandValidate(config.Commands.kv[
             CHOOSE name \in Keys(config.Commands) :
                 CommandValidate(config.Commands.kv[name]) # nilError])
    ELSE nilError

\* What a reader returns: a *Config and an error.
Read(cfg, err) == [cfg |-> cfg, err |-> err]

\* parseConfig
parseConfig(dat) ==
    IF dat.kind = "garbage" THEN Read(NilPtr, "yaml: cannot unmarshal")
    ELSE Read(Ptr(dat.cfg), ConfigValidate(dat.cfg))

\* readConfigFile
readConfigFile(path) ==
    IF ~Exists(path) THEN Read(NilPtr, "open: no such file or directory")
    ELSE parseConfig(FileAt(path))

\* readConfigFileIfExists
readConfigFileIfExists(path) ==
    IF ~Exists(path) THEN Read(NilPtr, nilError) ELSE readConfigFile(path)

\* readUrlCache without the os.Stat of the cache file: nothing is ever found.
readUrlCacheNoStat(dir, url) == NilPtr

\* readUrlCache: the cached bytes, nil when the cache has no file for the url
readUrlCache(dir, url) ==
    IF ~HasFile(dir, sha1HexString(url)) THEN NilPtr
    ELSE Ptr(dir.files[sha1HexString(url)])

\* writeUrlCache that makes the directory and stores nothing.
writeUrlCacheNothingStored(dir, url, dat) == MkdirAll(dir)

\* writeUrlCache
writeUrlCache(dir, url, dat) == WriteFile(MkdirAll(dir), sha1HexString(url), dat)

\* readConfigUrl: every outcome the call can have.  The http.Get may fail,
\* and so may the write to the cache, which then holds no file for the url.
readConfigUrl(dir, url) ==
    IF readUrlCache(dir, url) # NilPtr
    THEN {[read |-> parseConfig(Deref(readUrlCache(dir, url))), dir |-> dir,
           gets |-> <<>>, got |-> "none"]}
    ELSE {[read |-> Read(NilPtr, "Get: request failed"), dir |-> dir,
           gets |-> <<url>>, got |-> "none"]}
         \cup
         (IF url \notin DOMAIN net THEN {}
          ELSE {[read |-> Read(NilPtr, "cache: write failed"), dir |-> dir,
                 gets |-> <<url>>, got |-> "fetched"],
                [read |-> parseConfig(net[url]),
                 dir |-> writeUrlCache(dir, url, net[url]), gets |-> <<url>>,
                 got |-> "stored"]})
----------------------------------------------------------------------------
(* The machine po runs on.  po is invoked MaxInvocations times; the files,  *)
(* the working directory and what the server of the URL returns are        *)
(* chosen at the start; the user cache starts without its directories.     *)

MaxInvocations == 2

userDir == Dir(userConfigPath)

projectDir == <<"/", "w">>

\* The configuration files of the machine, and the name each gives to the
\* values of its document.
userImportPath == Join(userDir, <<"b.yml">>)

\* A second file next to the user-level po.yml.
userImport2Path == Join(userDir, <<"d.yml">>)

projectConfigPath == Join(projectDir, <<configFileName>>)

projectImportPath == Join(projectDir, <<"b.yml">>)

\* A po.yml in the root directory, above the project directory.
rootConfigPath == <<"/", configFileName>>

FilePaths == {userConfigPath, userImportPath, userImport2Path, projectConfigPath,
              projectImportPath, rootConfigPath}

importUrl == "u"

Origin(path) ==
    IF path = userConfigPath THEN "user"
    ELSE IF path = userImportPath THEN "user-import"
    ELSE IF path = userImport2Path THEN "user-import-2"
    ELSE IF path = projectConfigPath THEN "project"
    ELSE IF path = rootConfigPath THEN "root"
    ELSE "project-import"

\* The imports documents declare.
ImportB == Import(<<"b.yml">>, "")

ImportD == Import(<<"d.yml">>, "")

ImportPo == Import(<<configFileName>>, "")

ImportU == Import(<<>>, importUrl)

ImportLists == {<<>>, <<ImportB>>, <<ImportPo>>, <<ImportU>>, <<ImportB, ImportU>>}

\* A document whose alias, environment variable and command carry the name
\* of the place it was written at.
Document(origin, imports) ==
    Config(imports, GoMap("a" :> origin), GoMap("X" :> origin),
           GoMap("c" :> Command(origin, "",
                                <<Argument("name", "", FALSE, NilPtr, NilPtr)>>,
                                NilMap, "", origin, NilMap)))

\* A document with nested commands: group, with the subcommands subtask and
\* inner, inner with the subcommand leaf, and a top-level subtask.
Leaf(script) == Command(script, "", <<>>, NilMap, "", script, NilMap)

TreeDocument ==
    Config(<<>>, NilMap, NilMap,
           GoMap(("group" :> Command("g", "", <<>>, NilMap, "", "",
                                     GoMap(("subtask" :> Leaf("nested"))
                                           @@ ("inner" :> Command("i", "", <<>>, NilMap, "", "",
                                                                  GoMap("leaf" :> Command("l", "", <<>>, NilMap, "", "", NilMap)))))))
                 @@ ("subtask" :> Leaf("top"))))

\* The same with a top-level command whose name holds a ':'.
ColonDocument ==
    [TreeDocument EXCEPT
        !.Commands = GoMap(TreeDocument.Commands.kv @@ ("group:subtask" :> Leaf("colon")))]

\* Documents whose command c declares a flag the build does not accept: a
\* flag of a type buildFlags has no case for, a flag whose shorthand has two
\* characters.
FlagDocument(flag) ==
    [Document("user", <<>>) EXCEPT
        !.Commands = GoMap("c" :> Command("user", "", <<>>, GoMap(nBar :> flag),
                                         "", "user", NilMap))]

FlagDocuments ==
    {FlagDocument(Flag("", "", "float", <<>>, NilPtr)),
     FlagDocument(Flag("", "bb", "string", <<>>, NilPtr))}

\* A document that defines nothing itself and imports the two files next to
\* it, b.yml before d.yml.
SiblingsDocument == Config(<<ImportB, ImportD>>, NilMap, NilMap, NilMap)

\* Documents that parse as YAML and fail Config.Validate: an import with
\* neither key, an import with both keys, a command name the pattern rejects
\* (a digit first, a ':' inside), an argument with a negative at_most.
InvalidDocuments ==
    {ColonDocument,
     [Document("user", <<>>) EXCEPT !.Imports = <<Import(<<>>, "")>>],
     [Document("user", <<>>) EXCEPT !.Imports = <<Import(<<"b.yml">>, importUrl)>>],
     [Document("user", <<>>) EXCEPT
         !.Commands = GoMap("1x" :> Command("user", "", <<>>, NilMap, "", "user", NilMap))],
     [Document("user", <<>>) EXCEPT
         !.Commands = GoMap("c" :> Command("user", "",
                                      <<Argument("v", "", FALSE, NilPtr, Ptr(-1))>>,
                                      NilMap, "", "user", NilMap))]}

FileContents(path) ==
    {AbsentFile}
    \cup (IF path = userConfigPath
          THEN {Garbage, Yaml(TreeDocument), Yaml(SiblingsDocument)}
               \cup {Yaml(d) : d \in InvalidDocuments \cup FlagDocuments}
          ELSE {})
    \cup (IF path = userImport2Path
          THEN {Yaml(Document(Origin(path), il)) : il \in {<<>>, <<ImportU>>}}
          ELSE {Yaml(Document(Origin(path), il)) : il \in ImportLists})

\* What the server returns under the URL: a document, bytes that are no
\* YAML, or a document that fails Config.Validate (an import with neither
\* key).
InvalidUrlDocument == [Document("url", <<>>) EXCEPT !.Imports = <<Import(<<>>, "")>>]

UrlContents ==
    {Yaml(Document("url", il)) : il \in ImportLists}
        \cup {Garbage, Yaml(InvalidUrlDocument)}

WorkDirs == {projectDir, Join(projectDir, <<"s">>)}

CommandLineNames == {<<"c">>, <<"zz">>}

IoOutcomes == {"ok", "mkdir fails", "write fails", "write cut short", "exec fails"}

\* hasImport comparing the fields one by one and stopping at the first that
\* is equal.
hasImportAnyField(haystack, needle) ==
    \E i \in 1..Len(haystack) :
        haystack[i].File = needle.File \/ haystack[i].Url = needle.Url

\* hasImport
hasImport(haystack, needle) ==
    \E i \in 1..Len(haystack) : haystack[i] = needle

\* Some present document declares the import.
Declared(files, served, imp) ==
    \/ \E p \in DOMAIN files :
          /\ files[p].kind = "yaml"
          /\ hasImport(files[p].cfg.Imports, imp)
    \/ served.kind = "yaml" /\ hasImport(served.cfg.Imports, imp)

----------------------------------------------------------------------------
(* Import resolution *)

\* findProjectConfig: the loop from the working directory upward
RECURSIVE findProjectConfigFrom(_)
findProjectConfigFrom(path) ==
    IF isRootPath(path) THEN <<>>
    ELSE IF Exists(Join(path, <<configFileName>>))
    THEN Join(path, <<configFileName>>)
    ELSE findProjectConfigFrom(Join(path, <<"..">>))

findProjectConfig == findProjectConfigFrom(cwd)

\* findImportPath
findImportPath(importPath, chain) ==
    IF chain[Len(chain)].File = <<>> \/ IsAbs(importPath) THEN importPath
    ELSE Join(Dir(chain[Len(chain)].File), importPath)

\* One activation of loadImports: its config and the index of the import
\* the loop is at.
Frame(config) == [config |-> config, i |-> 1]

Top == stack[Len(stack)]

LoopDone(frame) == frame.i > Len(frame.config.Imports)

\* importError without the check of a file import under a URL parent.
importErrorAnyParent(imp, chain) ==
    IF imp.File # <<>> /\ imp.Url # ""
    THEN "cannot have an import with a file and a URL set"
    ELSE IF hasImport(chain, imp)
    THEN "cyclic dependency in imports"
    ELSE nilError

\* What the loop checks before it reads the import: the error, or nilError.
importError(imp, chain) ==
    IF imp.File # <<>> /\ imp.Url # ""
    THEN "cannot have an import with a file and a URL set"
    ELSE IF hasImport(chain, imp)
    THEN "cyclic dependency in imports"
    ELSE IF imp.File # <<>> /\ chain[Len(chain)].Url # ""
    THEN "cannot load a file import referenced from a URL"
    ELSE nilError

\* readImport: every outcome the call can have.
readImport(imp, chain) ==
    IF imp.File # <<>>
    THEN {[read |-> readConfigFile(findImportPath(imp.File, chain)),
           dir |-> importsDir, gets |-> <<>>, got |-> "none"]}
    ELSE readConfigUrl(importsDir, imp.Url)

\* init without the exit on a load error: the process goes on with what
\* loadAllConfigs returned.
LoadFailsIgnored(err) ==
    /\ phase' = "loaded"
    /\ exitCode' = exitCode
    /\ loaded' = Read(NilPtr, err)
    /\ stack' = <<>>
    /\ parents' = <<>>

\* loadAllConfigs returns (nil, err) and init exits with status 2.  A store
\* into a nil map during a merge ends the process with status 2 as well.
LoadFails(err) ==
    /\ phase' = "exit"
    /\ exitCode' = 2
    /\ loaded' = Read(NilPtr, err)
    /\ stack' = <<>>
    /\ parents' = <<>>

\* init starts: loadAllConfigs reads the user-level document.
ReadUserConfig ==
    /\ phase \in {"idle", "exit"}
    /\ invocation < MaxInvocations
    /\ invocation' = invocation + 1
    /\ environ' = (poHomeEnvVar :> Dir(userConfigPath))
    /\ argv' = <<>>
    /\ httpGets' = <<>>
    /\ execd' = NilPtr
    /\ userCfg' = NilPtr
    /\ projectCfg' = NilPtr
    /\ rootCmd' = {}
    /\ IF readConfigFile(userConfigPath).err # nilError
       THEN LoadFails(readConfigFile(userConfigPath).err)
       ELSE /\ phase' = "user"
            /\ stack' = <<Frame(Deref(readConfigFile(userConfigPath).cfg))>>
            /\ parents' = <<Import(userConfigPath, "")>>
            /\ loaded' = Read(NilPtr, nilError)
            /\ exitCode' = -1
    /\ usage' = {}
    /\ UNCHANGED <<fs, cwd, net, importsDir, scriptsDir, fetched,
                   mvars, avars, fvars, cvars>>

\* loadImports: one turn of the loop up to the recursive call.
LoadImport ==
    /\ phase \in {"user", "project"}
    /\ stack # <<>>
    /\ ~LoopDone(Top)
    /\ LET imp == Top.config.Imports[Top.i] IN
        IF importError(imp, parents) # nilError
        THEN /\ LoadFails(importError(imp, parents))
             /\ UNCHANGED <<importsDir, httpGets, fetched>>
        ELSE \E out \in readImport(imp, parents) :
                /\ importsDir' = out.dir
                /\ httpGets' = httpGets \o out.gets
                /\ fetched' = IF out.got = "none" THEN fetched
                              ELSE [fetched EXCEPT ![imp.Url] = out.got]
                /\ IF out.read.err # nilError
                   THEN LoadFails(out.read.err)
                   ELSE /\ stack' = Append(stack, Frame(Deref(out.read.cfg)))
                        /\ parents' = Append(parents, imp)
                        /\ UNCHANGED <<phase, exitCode, loaded>>
    /\ UNCHANGED usage
    /\ UNCHANGED <<fs, cwd, net, scriptsDir, environ, invocation, argv, execd,
                   userCfg, projectCfg, rootCmd, mvars, avars, fvars, cvars>>

\* loadImports: the recursive call returns, the imported document is merged
\* into the importing one and the loop moves on.
MergeImport ==
    /\ phase \in {"user", "project"}
    /\ Len(stack) > 1
    /\ LoopDone(Top)
    /\ IF ConfigMergePanics(stack[Len(stack) - 1].config, Top.config)
       THEN LoadFails("panic: assignment to entry in nil map")
       ELSE /\ stack' = [SubSeq(stack, 1, Len(stack) - 1) EXCEPT
                            ![Len(stack) - 1] =
                                [config |-> ConfigMerge(@.config, Top.config),
                                 i |-> @.i + 1]]
            /\ parents' = SubSeq(parents, 1, Len(parents) - 1)
            /\ UNCHANGED <<phase, exitCode, loaded>>
    /\ UNCHANGED usage
    /\ UNCHANGED <<fs, cwd, net, importsDir, scriptsDir, environ, invocation,
                   argv, httpGets, execd, userCfg, projectCfg, rootCmd, fetched,
                   mvars,
                   avars, fvars, cvars>>

\* loadAllConfigs: the user document is resolved; the project document is
\* looked for and read.
ReadProjectConfig ==
    /\ phase = "user"
    /\ Len(stack) = 1
    /\ LoopDone(Top)
    /\ userCfg' = Ptr(Top.config)
    /\ environ' = (poPathEnvVar :> Dir(findProjectConfig)) @@ environ
    /\ IF findProjectConfig = <<>>
       THEN /\ phase' = "project"
            /\ stack' = <<>>
            /\ parents' = <<>>
            /\ UNCHANGED <<exitCode, loaded>>
       ELSE IF readConfigFileIfExists(findProjectConfig).err # nilError
       THEN LoadFails(readConfigFileIfExists(findProjectConfig).err)
       ELSE /\ phase' = "project"
            /\ stack' = IF readConfigFileIfExists(findProjectConfig).cfg = NilPtr
                        THEN <<>>
                        ELSE <<Frame(Deref(readConfigFileIfExists(findProjectConfig).cfg))>>
            /\ parents' = IF readConfigFileIfExists(findProjectConfig).cfg = NilPtr
                          THEN <<>>
                          ELSE <<Import(findProjectConfig, "")>>
            /\ UNCHANGED <<exitCode, loaded>>
    /\ UNCHANGED usage
    /\ UNCHANGED <<fs, cwd, net, importsDir, scriptsDir, invocation, argv,
                   httpGets, execd, projectCfg, rootCmd, fetched,
                   mvars, avars, fvars, cvars>>

\* loadAllConfigs: both documents are resolved; the switch that merges them.
FinishLoad ==
    /\ phase = "project"
    /\ stack = <<>> \/ (Len(stack) = 1 /\ LoopDone(Top))
    /\ projectCfg' = IF stack = <<>> THEN NilPtr ELSE Ptr(Top.config)
    /\ IF userCfg = NilPtr /\ stack = <<>>
       THEN /\ loaded' = Read(NilPtr, nilError)
            /\ phase' = "loaded"
            /\ UNCHANGED <<userCfg, exitCode>>
       ELSE IF userCfg = NilPtr
       THEN /\ loaded' = Read(Ptr(Top.config), nilError)
            /\ phase' = "loaded"
            /\ UNCHANGED <<userCfg, exitCode>>
       ELSE IF stack = <<>>
       THEN /\ loaded' = Read(userCfg, nilError)
            /\ phase' = "loaded"
            /\ UNCHANGED <<userCfg, exitCode>>
       ELSE IF ConfigMergePanics(Deref(userCfg), Top.config)
       THEN /\ phase' = "exit"
            /\ exitCode' = 2
            /\ loaded' = Read(NilPtr, "panic: assignment to entry in nil map")
            /\ UNCHANGED userCfg
       ELSE /\ userCfg' = Ptr(ConfigMerge(Deref(userCfg), Top.config))
            /\ loaded' = Read(Ptr(ConfigMerge(Deref(userCfg), Top.config)), nilError)
            /\ phase' = "loaded"
            /\ UNCHANGED exitCode
    /\ stack' = <<>>
    /\ parents' = <<>>
    /\ UNCHANGED usage
    /\ UNCHANGED <<fs, cwd, net, importsDir, scriptsDir, environ, invocation,
                   argv, httpGets, execd, rootCmd, fetched,
                   mvars, avars, fvars, cvars>>
----------------------------------------------------------------------------
(* Building and running the commands *)

\* buildCommand: the error of buildFlags for the command or a subcommand.
RECURSIVE buildCommandError(_)
buildCommandError(command) ==
    IF buildFlagsError(command.Flags) # nilError THEN buildFlagsError(command.Flags)
    ELSE IF \E sub \in Keys(command.Commands) :
               buildCommandError(command.Commands.kv[sub]) # nilError
    THEN "no such type"
    ELSE nilError

\* buildCommand: the cobra commands it adds to the root command, the command
\* and its subcommands, each under its full name (the names on its path).
\* The text of a name of the documents: the sequence of its pieces, a ':'
\* being a piece of its own.
Text(name) ==
    IF name = "group:subtask" THEN <<"group", ":", "subtask">> ELSE <<name>>

RECURSIVE buildCommand(_, _)
buildCommand(name, command) ==
    {[name |-> name, command |-> command]}
    \cup UNION {buildCommand(name \o <<":">> \o Text(sub), command.Commands.kv[sub]) :
                   sub \in Keys(command.Commands)}

\* pflag's AddFlag, which StringP, IntP and BoolP call, panics on a shorthand
\* of more than one character and on a shorthand another flag already has.
buildFlagsPanics(flags) ==
    \/ \E k \in Keys(flags) : Len(flags.kv[k].Short) > 1
    \/ \E k1, k2 \in Keys(flags) :
          k1 # k2 /\ flags.kv[k1].Short # "" /\ flags.kv[k1].Short = flags.kv[k2].Short

RECURSIVE buildCommandPanics(_)
buildCommandPanics(command) ==
    \/ buildFlagsPanics(command.Flags)
    \/ \E sub \in Keys(command.Commands) : buildCommandPanics(command.Commands.kv[sub])

\* The statuses a build that does not complete can end the process with: 3
\* for the error of buildFlags, 2 for a panic of the runtime (the order of
\* the map decides when a document has both).
buildCommandsFromConfigFailures(config) ==
    (IF \E name \in Keys(config.Commands) :
           buildCommandError(config.Commands.kv[name]) # nilError
     THEN {3} ELSE {})
    \cup
    (IF \E name \in Keys(config.Commands) : buildCommandPanics(config.Commands.kv[name])
     THEN {2} ELSE {})

buildCommandsFromConfigError(config) ==
    IF \E name \in Keys(config.Commands) :
          buildCommandError(config.Commands.kv[name]) # nilError
    THEN "no such type"
    ELSE nilError

buildCommandsFromConfig(config) ==
    UNION {buildCommand(Text(name), config.Commands.kv[name]) :
              name \in Keys(config.Commands)}

\* configEnvVars
configEnvVars(config) ==
    IF config.Environment.isnil THEN <<>> ELSE config.Environment.kv

\* buildScript
buildScript(exec, script) == <<"#! ", exec, "\n", script>>

\* deleteFilesInDir: os.Remove on every file of the directory
deleteFilesInDir(dir) == [dir EXCEPT !.files = <<>>]

\* deleteCacheFiles: the two directories after the call, and its error.
deleteCacheFiles ==
    IF ~importsDir.exists
    THEN [imports |-> importsDir, scripts |-> scriptsDir, err |-> nilError]
    ELSE IF ~scriptsDir.exists
    THEN [imports |-> deleteFilesInDir(importsDir), scripts |-> scriptsDir,
          err |-> nilError]
    ELSE [imports |-> deleteFilesInDir(importsDir),
          scripts |-> deleteFilesInDir(scriptsDir), err |-> nilError]

\* The document init builds the commands from.
InitConfig == IF loaded.cfg = NilPtr THEN EmptyConfig ELSE Deref(loaded.cfg)

\* init: buildCommandsFromConfig
BuildCommands ==
    /\ phase = "loaded"
    /\ IF buildCommandsFromConfigFailures(InitConfig) # {}
       THEN /\ phase' = "exit"
            /\ exitCode' \in buildCommandsFromConfigFailures(InitConfig)
            /\ rootCmd' = {}
       ELSE /\ phase' = "built"
            /\ rootCmd' = buildCommandsFromConfig(InitConfig)
            /\ UNCHANGED exitCode
    /\ UNCHANGED usage
    /\ UNCHANGED <<fs, cwd, net, importsDir, scriptsDir, environ, invocation,
                   stack, parents, userCfg, projectCfg, loaded, argv, httpGets,
                   execd, fetched,
                   mvars, avars, fvars, cvars>>

\* strings.HasPrefix
HasPrefix(s, prefix) ==
    Len(s) >= Len(prefix) /\ SubSeq(s, 1, Len(prefix)) = prefix

\* isSubCommand, on the names of the two cobra commands
isSubCommand(parentName, name) == HasPrefix(name, parentName \o <<":">>)

\* isDirectSubCommand
isDirectSubCommand(parentName, name) ==
    /\ isSubCommand(parentName, name)
    /\ \A i \in (Len(parentName) + 2)..Len(name) : name[i] # ":"

\* isRootCommand
isRootCommand(name) == \A i \in 1..Len(name) : name[i] # ":"

\* hasSubCommands(rootCmd, cmd)
hasSubCommands(name) == \E c \in rootCmd : isSubCommand(name, c.name)

\* subCommandUsages(rootCmd, cmd): the names of the lines it prints
subCommandUsages(name) ==
    {c.name : c \in {d \in rootCmd : isDirectSubCommand(name, d.name)}}

\* rootCommandUsages(rootCmd, ""): the names of the lines it prints
rootCommandUsages == {c.name : c \in {d \in rootCmd : isRootCommand(d.name)}}

\* main: po --refresh
RunRefresh ==
    /\ phase = "built"
    /\ argv' = <<<<"--refresh">>>>
    /\ importsDir' = deleteCacheFiles.imports
    /\ scriptsDir' = deleteCacheFiles.scripts
    /\ phase' = "exit"
    /\ exitCode' = IF deleteCacheFiles.err # nilError THEN 1 ELSE 0
    /\ fetched' = [u \in DOMAIN fetched |-> "none"]
    /\ UNCHANGED usage
    /\ UNCHANGED <<fs, cwd, net, environ, invocation, stack, parents, userCfg,
                   projectCfg, loaded, httpGets, execd, rootCmd, mvars, avars, fvars, cvars>>

\* main: po, or po --commands
RunHelp ==
    /\ phase = "built"
    /\ argv' \in {<<>>, <<<<"--commands">>>>}
    /\ phase' = "exit"
    /\ exitCode' = 0
    /\ usage' = rootCommandUsages
    /\ UNCHANGED <<fs, cwd, net, importsDir, scriptsDir, environ, invocation,
                   stack, parents, userCfg, projectCfg, loaded, httpGets, execd,
                   rootCmd, fetched,
                   mvars, avars, fvars, cvars>>

\* The command of the root command with this full name.
Registered(name) == {c \in rootCmd : c.name = name}

\* What the run closure and execScript do for a command that has a script:
\* the scripts directory after the call, the process image it execs, its error.
execScript(command, args, io) ==
    LET exec == IF command.Exec = "" THEN defaultExecPath ELSE command.Exec
        scriptText == buildScript(exec, command.Script)
        scriptPath == sha1HexString(scriptText)
        written == IF HasFile(scriptsDir, scriptPath) THEN MkdirAll(scriptsDir)
                   ELSE WriteFile(MkdirAll(scriptsDir), scriptPath, scriptText)
    IN  IF io = "mkdir fails"
        THEN [scripts |-> scriptsDir, image |-> NilPtr, err |-> "mkdir: failed"]
        ELSE IF io = "write fails" /\ ~HasFile(scriptsDir, scriptPath)
        THEN [scripts |-> MkdirAll(scriptsDir), image |-> NilPtr,
              err |-> "write: failed"]
        \* ioutil.WriteFile has created the file when its Write fails
        ELSE IF io = "write cut short" /\ ~HasFile(scriptsDir, scriptPath)
        THEN [scripts |-> WriteFile(MkdirAll(scriptsDir), scriptPath, <<>>),
              image |-> NilPtr, err |-> "write: failed"]
        ELSE IF io = "exec fails"
        THEN [scripts |-> written, image |-> NilPtr, err |-> "exec: failed"]
        ELSE [scripts |-> written,
              image |-> Ptr([path |-> scriptPath,
                             text |-> written.files[scriptPath],
                             environ |-> environ,
                             config |-> configEnvVars(InitConfig),
                             args |-> argEnvVars(command.Args, args),
                             allArgs |-> allArgsEnvVar(args),
                             flags |-> flagEnvVars(buildFlags(command.Flags)),
                             allFlags |-> allFlagsEnvVar(command.Flags,
                                             buildFlags(command.Flags)).value]),
              err |-> nilError]

\* main: po <command> --help.  The usage function of the command prints the
\* list of its subcommands when it has some.
RunCommandHelp ==
    /\ phase = "built"
    /\ \E c \in rootCmd :
        /\ argv' = <<c.name, "--help">>
        /\ usage' = IF hasSubCommands(c.name) THEN subCommandUsages(c.name) ELSE {}
    /\ phase' = "exit"
    /\ exitCode' = 0
    /\ UNCHANGED <<fs, cwd, net, importsDir, scriptsDir, environ, invocation,
                   stack, parents, userCfg, projectCfg, loaded, httpGets, execd,
                   rootCmd, fetched,
                   mvars, avars, fvars, cvars>>

\* main: po <command> <args>
RunCommand ==
    /\ phase = "built"
    /\ \E name \in CommandLineNames \cup {c.name : c \in rootCmd},
          n \in 0..2, io \in IoOutcomes :
        /\ argv' = <<name>> \o SubSeq(Tokens, 1, n)
        /\ phase' = "exit"
        /\ IF Registered(name) = {}
           THEN /\ exitCode' = 1
                /\ UNCHANGED <<scriptsDir, execd>>
           ELSE LET command == (CHOOSE c \in Registered(name) : TRUE).command IN
                IF command.Script = ""
                THEN /\ exitCode' = 0
                     /\ UNCHANGED <<scriptsDir, execd>>
                ELSE IF argsMatchDefs(command.Args, n) # NoError
                THEN /\ exitCode' = 1
                     /\ UNCHANGED <<scriptsDir, execd>>
                ELSE IF argEnvVarsPanics(command.Args, SubSeq(Tokens, 1, n))
                THEN /\ exitCode' = 2
                     /\ UNCHANGED <<scriptsDir, execd>>
                ELSE /\ scriptsDir' = execScript(command, SubSeq(Tokens, 1, n), io).scripts
                     /\ execd' = execScript(command, SubSeq(Tokens, 1, n), io).image
                     /\ exitCode' = IF execScript(command, SubSeq(Tokens, 1, n), io).err
                                        # nilError
                                    THEN 1 ELSE 0
    /\ usage' = IF Len(argv') >= 1 /\ Registered(argv'[1]) # {}
                   /\ (CHOOSE c \in Registered(argv'[1]) : TRUE).command.Script = ""
                   /\ hasSubCommands(argv'[1])
                THEN subCommandUsages(argv'[1]) ELSE {}
    /\ UNCHANGED <<fs, cwd, net, importsDir, environ, invocation, stack, parents,
                   userCfg, projectCfg, loaded, httpGets, rootCmd, fetched,
                   mvars, avars, fvars, cvars>>
----------------------------------------------------------------------------
(* Spec: every run of po from its start to its exit *)

Init ==
    /\ \E cu \in FileContents(userConfigPath),
          cub \in FileContents(userImportPath),
          cud \in FileContents(userImport2Path),
          cp \in FileContents(projectConfigPath),
          cpb \in FileContents(projectImportPath),
          cr \in {AbsentFile, Yaml(Document(Origin(rootConfigPath), <<>>))} :
          fs = (userConfigPath :> cu) @@ (userImportPath :> cub)
               @@ (userImport2Path :> cud)
               @@ (projectConfigPath :> cp) @@ (projectImportPath :> cpb)
               @@ (rootConfigPath :> cr)
    /\ net \in [{importUrl} -> UrlContents]
    /\ cwd \in WorkDirs
    \* a po.yml in the root directory only where the project directory has none
    /\ fs[rootConfigPath].kind # "absent" => fs[projectConfigPath].kind = "absent"
    \* the documents with nested commands or flags come without other documents
    /\ fs[userConfigPath] \in {Yaml(d) : d \in {TreeDocument, ColonDocument} \cup FlagDocuments}
         => /\ \A p \in {userImportPath, projectConfigPath, projectImportPath} :
                   fs[p].kind = "absent"
            /\ net[importUrl] = Yaml(Document("url", <<>>))
    \* the document with two file imports comes without a project, and d.yml
    \* only with it
    /\ fs[userConfigPath] = Yaml(SiblingsDocument)
         => \A p \in {projectConfigPath, projectImportPath, rootConfigPath} :
                fs[p].kind = "absent"
    /\ fs[userImport2Path].kind # "absent" => fs[userConfigPath] = Yaml(SiblingsDocument)
    \* a file that no document imports is left out
    /\ fs[userImportPath].kind # "absent" => Declared(fs, net[importUrl], ImportB)
    /\ fs[projectImportPath].kind # "absent" => Declared(fs, net[importUrl], ImportB)
    /\ net[importUrl] # Yaml(Document("url", <<>>))
         => Declared(fs, Yaml(EmptyConfig), ImportU)
    \* a URL whose content does not load comes without a project
    /\ net[importUrl] \in {Garbage, Yaml(InvalidUrlDocument)}
         => \A p \in {projectConfigPath, projectImportPath, rootConfigPath} :
                fs[p].kind = "absent"
    /\ importsDir = NoDir
    /\ scriptsDir = NoDir
    /\ environ = <<>>
    /\ invocation = 0
    /\ phase = "idle"
    /\ stack = <<>>
    /\ parents = <<>>
    /\ userCfg = NilPtr
    /\ projectCfg = NilPtr
    /\ loaded = Read(NilPtr, nilError)
    /\ exitCode = -1
    /\ argv = <<>>
    /\ httpGets = <<>>
    /\ execd = NilPtr
    /\ rootCmd = {}
    /\ fetched = [u \in DOMAIN net |-> "none"]
    /\ usage = {}
    /\ IdleMerge
    /\ IdleArgs
    /\ IdleFlags
    /\ IdleCache

Next ==
    \/ ReadUserConfig
    \/ LoadImport
    \/ MergeImport
    \/ ReadProjectConfig
    \/ FinishLoad
    \/ BuildCommands
    \/ RunRefresh
    \/ RunHelp
    \/ RunCommandHelp
    \/ RunCommand

Spec == Init /\ [][Next]_vars

----------------------------------------------------------------------------
(* Several po processes that run at the same time on one user cache.  Each  *)
(* either resolves the import of importUrl (readConfigUrl) or runs the      *)
(* command whose script is "s" (execScript).  Every system call is a step:  *)
(* os.Stat, ioutil.ReadFile, and the two calls ioutil.WriteFile makes, the  *)
(* open with O_CREATE|O_TRUNC that leaves the file empty and the write of   *)
(* the bytes.                                                               *)

MaxProcs == 3

Procs == 1..MaxProcs

\* What the server returns for importUrl, and the text of the script file.
fetchedBytes == <<"aliases:", "  a: url">>

scriptText == buildScript(defaultExecPath, "s")

\* The cache file a process works on, and the bytes written to it.
cachePath(task) ==
    IF task = "import" THEN <<"imports", sha1HexString(importUrl)>>
    ELSE <<"scripts", sha1HexString(scriptText)>>

cacheBytes(task) == IF task = "import" THEN fetchedBytes ELSE scriptText

\* The file is open for writing in some process.
OpenForWriting(path) ==
    \E q \in Procs : cachePath(cProcs[q].task) = path /\ cProcs[q].pc = "write"

InitCache ==
    /\ cFiles = [path \in {cachePath("import"), cachePath("script")} |-> NilPtr]
    /\ cProcs \in [Procs -> {[task |-> t, pc |-> "stat", dat |-> NilPtr, used |-> NilPtr] :
                                t \in {"import", "script"}}]
    /\ IdleMerge
    /\ IdleArgs
    /\ IdleFlags
    /\ IdlePo

\* os.Stat of the cache file, in readUrlCache and in scriptCachePath
StatCacheFile ==
    \E p \in Procs :
        /\ cProcs[p].pc = "stat"
        /\ cProcs' = [cProcs EXCEPT ![p].pc =
                         IF cFiles[cachePath(cProcs[p].task)] # NilPtr
                         THEN (IF cProcs[p].task = "import" THEN "read" ELSE "exec")
                         ELSE (IF cProcs[p].task = "import" THEN "get" ELSE "open")]
        /\ UNCHANGED <<cFiles, mvars, avars, fvars, pvars>>

\* readUrlCache: ioutil.ReadFile of the file that was found; readConfigUrl
\* parses the bytes.
ReadCacheFile ==
    \E p \in Procs :
        /\ cProcs[p].pc = "read"
        /\ cProcs' = [cProcs EXCEPT ![p].pc = "done",
                                    ![p].dat = cFiles[cachePath("import")],
                                    ![p].used = cFiles[cachePath("import")]]
        /\ UNCHANGED <<cFiles, mvars, avars, fvars, pvars>>

\* readConfigUrl: http.Get and ioutil.ReadAll
HttpGet ==
    \E p \in Procs :
        /\ cProcs[p].pc = "get"
        /\ cProcs' = [cProcs EXCEPT ![p].pc = "open", ![p].dat = Ptr(fetchedBytes)]
        /\ UNCHANGED <<cFiles, mvars, avars, fvars, pvars>>

\* ioutil.WriteFile: os.OpenFile(O_WRONLY|O_CREATE|O_TRUNC)
OpenTruncate ==
    \E p \in Procs :
        /\ cProcs[p].pc = "open"
        /\ cFiles' = [cFiles EXCEPT ![cachePath(cProcs[p].task)] = Ptr(<<>>)]
        /\ cProcs' = [cProcs EXCEPT ![p].pc = "write"]
        /\ UNCHANGED <<mvars, avars, fvars, pvars>>

\* ioutil.WriteFile: f.Write and f.Close
WriteBytes ==
    \E p \in Procs :
        /\ cProcs[p].pc = "write"
        /\ cFiles' = [cFiles EXCEPT ![cachePath(cProcs[p].task)] =
                         Ptr(cacheBytes(cProcs[p].task))]
        /\ cProcs' = [cProcs EXCEPT ![p].pc =
                         IF cProcs[p].task = "import" THEN "parse" ELSE "exec"]
        /\ UNCHANGED <<mvars, avars, fvars, pvars>>

\* readConfigUrl: parseConfig of the bytes that were fetched
ParseFetched ==
    \E p \in Procs :
        /\ cProcs[p].pc = "parse"
        /\ cProcs' = [cProcs EXCEPT ![p].pc = "done", ![p].used = cProcs[p].dat]
        /\ UNCHANGED <<cFiles, mvars, avars, fvars, pvars>>

\* execScript: unix.Exec of the script file.  The kernel refuses a file that
\* is open for writing (ETXTBSY) where it checks that, and runs what the file
\* holds where it does not.
ExecCacheFile ==
    \E p \in Procs :
        /\ cProcs[p].pc = "exec"
        /\ \/ cProcs' = [cProcs EXCEPT ![p].pc = "done",
                                       ![p].used = cFiles[cachePath("script")]]
           \/ /\ OpenForWriting(cachePath("script"))
              /\ cProcs' = [cProcs EXCEPT ![p].pc = "done",
                                          ![p].used = Ptr(<<"text file busy">>)]
        /\ UNCHANGED <<cFiles, mvars, avars, fvars, pvars>>

NextCache ==
    \/ StatCacheFile
    \/ ReadCacheFile
    \/ HttpGet
    \/ OpenTruncate
    \/ WriteBytes
    \/ ParseFetched
    \/ ExecCacheFile

SpecCache == InitCache /\ [][NextCache]_vars

----------------------------------------------------------------------------
(* Claims about merging (SpecMerge) *)

RECURSIVE OverrideWins(_, _, _)

\* For every command of both maps, at any depth, the override's non-empty
\* fields and non-empty argument list are what the merged map holds.
OverrideWins(a, b, out) ==
    \A k \in Keys(a) \cap Keys(b) :
        /\ HasKey(out, k)
        /\ b.kv[k].Short # "" => out.kv[k].Short = b.kv[k].Short
        /\ b.kv[k].Long # "" => out.kv[k].Long = b.kv[k].Long
        /\ b.kv[k].Script # "" => out.kv[k].Script = b.kv[k].Script
        /\ Len(b.kv[k].Args) > 0 => out.kv[k].Args = b.kv[k].Args
        /\ OverrideWins(a.kv[k].Commands, b.kv[k].Commands, out.kv[k].Commands)

\* C1: after the top-level merge (user document as base, project document
\* as override), every command defined in both documents, at any nesting
\* depth, holds each non-empty scalar field (short, long, script) and the
\* non-empty argument list of the project's definition, the list taken
\* whole from the override.
C1_ProjectWins ==
    mPhase = "merged" => OverrideWins(mA.Commands, mB.Commands, mOut.Commands)

\* A map of the result holds exactly the keys of the two maps, and the
\* override's value under a key of the override alone.
UnionOfKeys(a, b, out) ==
    /\ Keys(out) = Keys(a) \cup Keys(b)
    /\ \A k \in Keys(b) \ Keys(a) : out.kv[k] = b.kv[k]

\* The same for a map of commands and, under every key of both maps, for the
\* flags and the nested commands of the command.
RECURSIVE UnionOfCommands(_, _, _)
UnionOfCommands(a, b, out) ==
    /\ UnionOfKeys(a, b, out)
    /\ \A k \in Keys(a) \cap Keys(b) \cap Keys(out) :
        /\ UnionOfKeys(a.kv[k].Flags, b.kv[k].Flags, out.kv[k].Flags)
        /\ UnionOfCommands(a.kv[k].Commands, b.kv[k].Commands, out.kv[k].Commands)

\* C15: merging a base document with an override yields, at every map level
\* (commands, a command's flags and nested commands, environment, aliases),
\* exactly the union of the keys of the two documents, a key of the override
\* alone with the override's value.
C15_UnionOfKeys ==
    mPhase \in {"merged", "panic"} =>
        /\ mPhase = "merged"
        /\ UnionOfCommands(mA.Commands, mB.Commands, mOut.Commands)
        /\ UnionOfKeys(mA.Environment, mB.Environment, mOut.Environment)
        /\ UnionOfKeys(mA.Aliases, mB.Aliases, mOut.Aliases)

\* C16: merging the override into the merged document again completes and
\* gives the document the first merge gave.
C16_MergeIdempotent ==
    /\ mPhase = "merged" => ~ConfigMergePanics(mOut, mB)
    /\ mPhase = "merged twice" => mOut = ConfigMerge(mA, mB)

\* A second merge was done on a result that is neither the base nor the
\* override, with a key of both documents in the string maps.
C16_MergedTwice ==
    /\ mPhase = "merged twice"
    /\ mOut # mA
    /\ mOut # mB
    /\ Keys(mA.Environment) \cap Keys(mB.Environment) # {}

----------------------------------------------------------------------------
(* Claims about arity (SpecArgs) *)

\* The arity a definition declares: its maximum is absent (no maximum) when
\* an amount is given without at_most, 1 when no amount is given, and the
\* declared at_most otherwise.
DeclaredUnbounded(def) == def.AtMostP = NilPtr /\ def.AtLeastP # NilPtr

DeclaredMax(def) == IF def.AtMostP # NilPtr THEN Deref(def.AtMostP) ELSE 1

RECURSIVE SumOver(_, _, _)
SumOver(Op(_), defs, i) ==
    IF i > Len(defs) THEN 0 ELSE Op(defs[i]) + SumOver(Op, defs, i + 1)

MinTotal(defs) == SumOver(ArgAtLeast, defs, 1)

MaxTotal(defs) == SumOver(DeclaredMax, defs, 1)

TotalUnbounded(defs) == \E i \in 1..Len(defs) : DeclaredUnbounded(defs[i])

\* The number of elements of a slice, from its space-joined value.
SliceLen(value) == (Len(value) + 1) \div 2

\* C3: for validated argument definitions the count check accepts a call
\* with N positional arguments if and only if minTotal <= N and (maxTotal
\* is unbounded or N <= maxTotal).
C3_CountCheck ==
    aPhase \in {"accepted", "rejected"} =>
        (aPhase = "accepted" <=>
            /\ MinTotal(aDefs) <= Len(aArgs)
            /\ TotalUnbounded(aDefs) \/ Len(aArgs) <= MaxTotal(aDefs))

\* C4: for a validated definition with minimum a and finite declared
\* maximum b, b >= a >= 0, and a call the count check accepted, the slice
\* bound to the definition has at most b and at least a elements.
C4_SliceWithinArity ==
    aPhase = "bound" =>
        \A i \in 1..Len(aDefs) :
            (/\ ~DeclaredUnbounded(aDefs[i])
             /\ DeclaredMax(aDefs[i]) >= ArgAtLeast(aDefs[i])
             /\ ArgAtLeast(aDefs[i]) >= 0)
            => /\ SliceLen(aEnv[i].value) <= DeclaredMax(aDefs[i])
               /\ SliceLen(aEnv[i].value) >= ArgAtLeast(aDefs[i])

\* An arity the claim says parsing rejects: a negative at_most, a negative
\* at_least, an at_most below the effective minimum of the argument (1 by
\* default, 0 when optional, the declared at_least otherwise).
IllFormedArity(def) ==
    \/ def.AtMostP # NilPtr /\ Deref(def.AtMostP) < 0
    \/ def.AtLeastP # NilPtr /\ Deref(def.AtLeastP) < 0
    \/ def.AtMostP # NilPtr /\ Deref(def.AtMostP) < ArgAtLeast(def)

\* C17: a document with an argument definition of ill-formed arity is
\* rejected by validation, so every definition of a command that passed has
\* an effective minimum >= 0 and, when at_most is present, at_most >= that
\* minimum.
C17_IllFormedArityRejected ==
    aPhase \notin {"parsed", "invalid"} =>
        \A i \in 1..Len(aDefs) :
            /\ ~IllFormedArity(aDefs[i])
            /\ ArgAtLeast(aDefs[i]) >= 0
            /\ aDefs[i].AtMostP # NilPtr => Deref(aDefs[i].AtMostP) >= ArgAtLeast(aDefs[i])

----------------------------------------------------------------------------
(* Claims about flags (SpecFlags) *)

\* The flag was explicitly set on the command line, in either form.
ExplicitlySet(k) == CliSetters(fDefs, fCli, k) # {}

\* The value the command line gives the flag.
CliValueOf(k) == fCli[CHOOSE e \in CliSetters(fDefs, fCli, k) : TRUE].value

\* The resolved value: the command-line value if set, else the default.
ResolvedValue(k) == IF ExplicitlySet(k) THEN CliValueOf(k) ELSE fDefs.kv[k].Default

ResolvedFalse(k) == fDefs.kv[k].Type = "bool" /\ ~parseBool(ResolvedValue(k))

\* A contributing flag: explicitly set or declared with a non-empty
\* default, and not resolved to boolean false.
Contributes(k) ==
    /\ ExplicitlySet(k) \/ fDefs.kv[k].Default # <<>>
    /\ ~ResolvedFalse(k)

\* The declared flags that contribute, in the order FLAGS lists them.
ContributingNames == SelectSeq(NameOrder, LAMBDA k : HasKey(fDefs, k) /\ Contributes(k))

\* The token the code builds for a flag of the flag set.
CodeToken(k) ==
    LET f == CHOOSE x \in {fSet[i] : i \in 1..Len(fSet)} : x.Name = k
    IN  IF f.Type = "bool" THEN Trim(flagsPrefix(k, fDefs.kv[k]))
        ELSE Trim(flagsPrefix(k, fDefs.kv[k]) \o flagValueOrDefault(f))

\* The token as documented: the prefix followed by the resolved value, the
\* bare prefix for a bool flag; spaces at the ends of a token do not count.
DocumentedToken(k) ==
    IF fDefs.kv[k].Type = "bool" THEN Trim(flagsPrefix(k, fDefs.kv[k]))
    ELSE Trim(flagsPrefix(k, fDefs.kv[k]) \o ResolvedValue(k))

\* C9: a declared flag contributes an environment variable NAME=value, and
\* a token of FLAGS, if and only if it was explicitly set or declares a
\* non-empty default, and its resolved value is not boolean false; a flag
\* that was not set and has no declared default contributes nothing.
C9_FlagContributes ==
    fPhase = "run" =>
        /\ \A k \in Keys(fDefs) :
              (\E i \in 1..Len(fEnv) : fEnv[i].name = k) <=> Contributes(k)
        /\ \A i \in 1..Len(fEnv) : fEnv[i].name \in Keys(fDefs)
        /\ fAll = JoinTokens([i \in 1..Len(ContributingNames) |->
                                 CodeToken(ContributingNames[i])])

\* C10: FLAGS is the space-joined list of one token per contributing flag:
\* for a non-bool flag its prefix (flags_prefix if declared, else
\* "--<name> ") followed by the resolved value, for a true bool flag the
\* bare prefix, the same in long and in short form.
C10_FlagsVariable ==
    fPhase = "run" =>
        fAll = JoinTokens([i \in 1..Len(ContributingNames) |->
                              DocumentedToken(ContributingNames[i])])


----------------------------------------------------------------------------
(* Claims about loading and the caches (Spec) *)

\* loadAllConfigs has returned in the running or last process.
LoadReturned == phase \in {"loaded", "built", "exit"}

\* loadAllConfigs got as far as looking for the project document.
ProjectStage == poPathEnvVar \in DOMAIN environ

\* The values a document defines itself are the ones its resolved form has.
OwnValuesKept(own, resolved) ==
    /\ \A k \in Keys(own.Environment) :
          /\ HasKey(resolved.Environment, k)
          /\ resolved.Environment.kv[k] = own.Environment.kv[k]
    /\ \A k \in Keys(own.Aliases) :
          /\ HasKey(resolved.Aliases, k)
          /\ resolved.Aliases.kv[k] = own.Aliases.kv[k]
    /\ \A k \in Keys(own.Commands) :
          /\ HasKey(resolved.Commands, k)
          /\ resolved.Commands.kv[k].Short = own.Commands.kv[k].Short
          /\ resolved.Commands.kv[k].Script = own.Commands.kv[k].Script
          /\ resolved.Commands.kv[k].Args = own.Commands.kv[k].Args

\* C2: after the import resolution of a document, every key the document
\* defines itself (an environment variable, an alias, a field of a command)
\* has the document's own value, whatever its imports define: here for the
\* user document once resolved, and for the project document once resolved.
C2_ImporterWins ==
    /\ (phase = "project" /\ userCfg # NilPtr)
          => OwnValuesKept(FileAt(userConfigPath).cfg, Deref(userCfg))
    /\ (phase \in {"loaded", "built"} /\ projectCfg # NilPtr)
          => OwnValuesKept(FileAt(findProjectConfig).cfg, Deref(projectCfg))

\* The document a reference names as documented: a URL, or a file whose
\* relative path is taken from the directory of the importing file.
Located(node) ==
    IF node.Url # ""
    THEN (IF node.Url \in DOMAIN net THEN net[node.Url] ELSE AbsentFile)
    ELSE FileAt(node.File)

References(node) ==
    IF Located(node).kind # "yaml" THEN {}
    ELSE IF ConfigValidate(Located(node).cfg) # nilError THEN {}
    ELSE {IF Located(node).cfg.Imports[i].Url # ""
          THEN Import(<<>>, Located(node).cfg.Imports[i].Url)
          ELSE IF IsAbs(Located(node).cfg.Imports[i].File)
          THEN Import(Clean(Located(node).cfg.Imports[i].File), "")
          ELSE Import(Join(Dir(node.File), Located(node).cfg.Imports[i].File), "") :
             i \in {j \in 1..Len(Located(node).cfg.Imports) :
                       node.Url = "" \/ Located(node).cfg.Imports[j].File = <<>>}}

RECURSIVE ReachableFrom(_)
ReachableFrom(nodes) ==
    IF UNION {References(n) : n \in nodes} \subseteq nodes THEN nodes
    ELSE ReachableFrom(nodes \cup UNION {References(n) : n \in nodes})

\* The import references contain a cycle reachable from the root document.
HasCycle(root) ==
    \E n \in ReachableFrom({root}) : n \in ReachableFrom(References(n))

CyclicError == Read(NilPtr, "cyclic dependency in imports")

\* C5: when the import references of the documents contain a cycle reachable
\* from a root document, the import resolution of that root never succeeds:
\* it ends with the cyclic-dependency error and no document.
C5_CyclesRejected ==
    /\ HasCycle(Import(userConfigPath, ""))
          => /\ phase \notin {"project", "loaded", "built"}
             /\ phase = "exit" => (exitCode = 2 /\ loaded = CyclicError)
    /\ (findProjectConfig # <<>> /\ HasCycle(Import(findProjectConfig, "")))
          => /\ phase \notin {"loaded", "built"}
             /\ (phase = "exit" /\ ProjectStage) => (exitCode = 2 /\ loaded = CyclicError)

\* C8: loadAllConfigs never fails because a configuration file is missing.
\* Without a user-level file and without a project file it returns no
\* document and no error; without a user-level file it goes on to the
\* project document, which is the result when its imports resolve; without
\* a project file the resolved user document is the result.
C8_MissingFileIsNoError ==
    LoadReturned =>
        /\ (~Exists(userConfigPath) /\ findProjectConfig = <<>>)
              => loaded = Read(NilPtr, nilError)
        /\ (~Exists(userConfigPath) /\ findProjectConfig # <<>>)
              => /\ ProjectStage
                 /\ loaded.err = nilError => (loaded.cfg # NilPtr /\ loaded.cfg = projectCfg)
        /\ (Exists(userConfigPath) /\ findProjectConfig = <<>>)
              => (loaded.err = nilError => (loaded.cfg # NilPtr /\ projectCfg = NilPtr))

\* The import cache holds an entry for the URL.
CacheHolds(u) == HasFile(importsDir, sha1HexString(u))

\* The step requests the URL with http.Get.
Fetches(u) == httpGets' = Append(httpGets, u)

C7_ResetClearsBoth ==
    (phase = "exit" /\ argv = <<<<"--refresh">>>> /\ exitCode = 0)
        => (importsDir.files = <<>> /\ scriptsDir.files = <<>>)

\* The innermost document being resolved was obtained through a URL import
\* and the loop is at a file import of it.
AtFileImportOfUrlDocument ==
    /\ phase \in {"user", "project"}
    /\ stack # <<>>
    /\ ~LoopDone(Top)
    /\ parents[Len(parents)].Url # ""
    /\ Top.config.Imports[Top.i].File # <<>>

\* C11: a file import declared in a document that was obtained through a URL
\* import is rejected: the step that reaches it ends the load with an error,
\* exit status 2 and no document; the loop of such a document never gets past
\* a file import; and in the chain of parents no file import comes after a
\* URL import.
C11_NoFileImportUnderUrl ==
    /\ [](\A i \in 1..Len(parents) : \A j \in 1..Len(parents) :
            (i < j /\ parents[i].Url # "") => parents[j].File = <<>>)
    /\ [](\A k \in 1..Len(stack) :
            parents[k].Url # "" =>
                \A j \in 1..Len(stack[k].config.Imports) :
                    j < stack[k].i => stack[k].config.Imports[j].File = <<>>)
    /\ [][AtFileImportOfUrlDocument =>
            (/\ phase' = "exit"
             /\ exitCode' = 2
             /\ loaded'.cfg = NilPtr
             /\ loaded'.err # nilError)]_vars

\* The load was aborted because a document obtained through a URL import
\* declares a file import.
C11_FileImportRejected ==
    /\ phase = "exit"
    /\ exitCode = 2
    /\ loaded = Read(NilPtr, "cannot load a file import referenced from a URL")

\* The file the k-th import of the chain was read from: the path the code
\* opened, as the process resolves it.
ReadFrom(chain, k) ==
    IF k = 1 THEN chain[1].File
    ELSE Resolve(findImportPath(chain[k].File, SubSeq(chain, 1, k - 1)))

\* C12: at every depth of the chain, a file import with a relative path was
\* read from the directory of the file its importing document was read from,
\* joined with the declared path.
C12_RelativeToImporter ==
    \A k \in 2..Len(parents) :
        (parents[k].File # <<>> /\ ~IsAbs(parents[k].File))
            => ReadFrom(parents, k)
                   = Join(Dir(ReadFrom(parents, k - 1)), parents[k].File)

\* A step of loading that fails: the user document cannot be read, parsed or
\* validated; the import the loop is at is malformed, cyclic or a file import
\* of a URL document, its file cannot be read, parsed or validated, its fetch
\* or the store of what was fetched fails, or what the cache then holds does
\* not parse; the project document that was found cannot be parsed or
\* validated.
UserDocumentFails ==
    /\ phase \in {"idle", "exit"}
    /\ invocation' = invocation + 1
    /\ readConfigFile(userConfigPath).err # nilError

ImportFails ==
    /\ phase \in {"user", "project"}
    /\ stack # <<>>
    /\ ~LoopDone(Top)
    /\ \/ ImportValidate(Top.config.Imports[Top.i]) # nilError
       \/ hasImport(parents, Top.config.Imports[Top.i])
       \/ /\ Top.config.Imports[Top.i].File # <<>>
          /\ readConfigFile(findImportPath(Top.config.Imports[Top.i].File, parents)).err
                 # nilError
       \/ /\ Top.config.Imports[Top.i].Url # ""
          /\ \/ /\ httpGets' # httpGets
                /\ ~HasFile(importsDir', sha1HexString(Top.config.Imports[Top.i].Url))
             \/ /\ HasFile(importsDir', sha1HexString(Top.config.Imports[Top.i].Url))
                /\ parseConfig(importsDir'.files[
                       sha1HexString(Top.config.Imports[Top.i].Url)]).err # nilError

ProjectDocumentFails ==
    /\ phase = "user"
    /\ Len(stack) = 1
    /\ LoopDone(Top)
    /\ findProjectConfig # <<>>
    /\ Exists(findProjectConfig)
    /\ parseConfig(FileAt(findProjectConfig)).err # nilError

\* The process ended with the load error: no document, nothing built or run.
NothingUsed ==
    /\ phase = "exit"
    /\ exitCode = 2
    /\ loaded.cfg = NilPtr
    /\ loaded.err # nilError
    /\ rootCmd = {}
    /\ execd = NilPtr
    /\ argv = <<>>

\* C13: a step of loading that fails makes loadAllConfigs return an error and
\* no document, and the process ends with nothing built or run; whenever the
\* load has returned an error, no command was registered and no script was
\* executed by this process.
C13_FailedLoadUsesNothing ==
    /\ []((LoadReturned /\ loaded.err # nilError) => NothingUsed)
    /\ [][(UserDocumentFails \/ ImportFails \/ ProjectDocumentFails) => NothingUsed']_vars

\* The user document was resolved, the load failed in the project document,
\* and nothing of the user document was used.
C13_FailedAfterUserDocument ==
    /\ NothingUsed
    /\ userCfg # NilPtr
    /\ ProjectStage

----------------------------------------------------------------------------
(* Claims about concurrent invocations (SpecCache) *)

\* C14: no process parses or executes a cache entry whose content differs
\* from the complete content of its key: the fetched bytes for the import
\* cache, the full script text for the script cache.
C14_NoTornEntry ==
    \A p \in Procs :
        cProcs[p].used # NilPtr => cProcs[p].used = Ptr(cacheBytes(cProcs[p].task))

\* The directories from the working directory up to the root directory, and
\* the po.yml of the nearest of them that has one (<<>> when none has).
Ancestors == {SubSeq(cwd, 1, k) : k \in 1..Len(cwd)}

NearestConfig ==
    IF \A dir \in Ancestors : ~Exists(Join(dir, <<configFileName>>)) THEN <<>>
    ELSE Join(CHOOSE dir \in Ancestors :
                  /\ Exists(Join(dir, <<configFileName>>))
                  /\ \A other \in Ancestors :
                         Exists(Join(other, <<configFileName>>)) => Len(other) <= Len(dir),
              <<configFileName>>)

\* C18: findProjectConfig returns the po.yml of the nearest directory, from
\* the working directory up to and including the root directory, that has
\* one, and nothing only when none of them has; loadAllConfigs sets POPATH
\* to the directory of what it returned.
C18_NearestConfigFound ==
    ProjectStage =>
        /\ findProjectConfig = NearestConfig
        /\ environ[poPathEnvVar] = Dir(NearestConfig)

----------------------------------------------------------------------------
(* Claims about running a command (Spec) *)

\* The default arity: exactly one argument.
DefaultArity(def) == def.AtLeastP = NilPtr /\ def.AtMostP = NilPtr /\ ~def.Optional

\* main runs a registered command that has a script and k >= 1 argument
\* definitions, all of the default arity.
RunsDefaultArityCommand ==
    /\ phase = "built"
    /\ phase' = "exit"
    /\ Len(argv') >= 1
    /\ Registered(argv'[1]) # {}
    /\ \A i \in 2..Len(argv') : argv'[i] # "--help"
    /\ (CHOOSE c \in Registered(argv'[1]) : TRUE).command.Script # ""
    /\ Len((CHOOSE c \in Registered(argv'[1]) : TRUE).command.Args) >= 1
    /\ \A i \in 1..Len((CHOOSE c \in Registered(argv'[1]) : TRUE).command.Args) :
           DefaultArity((CHOOSE c \in Registered(argv'[1]) : TRUE).command.Args[i])

\* What the run of the command with the arguments args has to be.
ExactCountRun(command, args) ==
    IF Len(args) # Len(command.Args)
    THEN /\ argsMatchDefs(command.Args, Len(args))
                = [msg |-> "requires exactly", n |-> Len(command.Args), m |-> 0]
         /\ exitCode' = 1
         /\ execd' = NilPtr
         /\ scriptsDir' = scriptsDir
    ELSE /\ argsMatchDefs(command.Args, Len(args)) = NoError
         /\ execd' = NilPtr => exitCode' = 1
         /\ execd' # NilPtr =>
              /\ exitCode' = 0
              /\ Deref(execd').text
                    = buildScript(IF command.Exec = "" THEN defaultExecPath
                                  ELSE command.Exec, command.Script)
              /\ Len(Deref(execd').args) = Len(command.Args)
              /\ \A i \in 1..Len(command.Args) :
                    Deref(execd').args[i] = envVarPair(command.Args[i].Var, <<args[i]>>)

\* C19: for a command whose k >= 1 argument definitions all have the default
\* arity, a call with N # k arguments fails with the error "requires exactly
\* k arguments" without executing the script or changing the script cache,
\* and a call with N = k arguments passes the count check and executes the
\* script with the i-th declared variable bound to the i-th argument (an
\* input/output failure of the cache or of exec ends the process with
\* status 1).
C19_ExactCount ==
    [][RunsDefaultArityCommand =>
          ExactCountRun((CHOOSE c \in Registered(argv'[1]) : TRUE).command, Tail(argv'))]_vars

\* The command c was called with one argument and its script runs with the
\* variable name bound to that argument.
C19_RunWithName ==
    /\ phase = "exit"
    /\ argv = <<<<"c">>, Tokens[1]>>
    /\ execd # NilPtr
    /\ Deref(execd).args = <<envVarPair("name", <<Tokens[1]>>)>>

\* The command nodes of a map of commands, each as the names on its path
\* from the top level; the node at a path; the full name of a path, its
\* names joined by ':'.
RECURSIVE NodePaths(_)
NodePaths(commands) ==
    UNION {{<<k>>} \cup {<<k>> \o p : p \in NodePaths(commands.kv[k].Commands)} :
              k \in Keys(commands)}

RECURSIVE NodeAt(_, _)
NodeAt(commands, path) ==
    IF Len(path) = 1 THEN commands.kv[path[1]]
    ELSE NodeAt(commands.kv[path[1]].Commands, Tail(path))

RECURSIVE FullName(_)
FullName(path) ==
    IF Len(path) = 1 THEN Text(path[1])
    ELSE Text(path[1]) \o <<":">> \o FullName(Tail(path))

\* C20: once the commands are built, every command node of the document is
\* registered under its full name, no two nodes have the same full name and
\* nothing else is registered; the list of commands printed for a node holds
\* exactly the full names of its children.
C20_FullNames ==
    /\ rootCmd # {} =>
        /\ \A p \in NodePaths(InitConfig.Commands) :
              [name |-> FullName(p), command |-> NodeAt(InitConfig.Commands, p)] \in rootCmd
        /\ \A p, q \in NodePaths(InitConfig.Commands) : p # q => FullName(p) # FullName(q)
        /\ Cardinality(rootCmd) = Cardinality(NodePaths(InitConfig.Commands))
    /\ (phase = "exit" /\ Len(argv) = 2 /\ argv[2] = "--help") =>
        \A p \in NodePaths(InitConfig.Commands) :
            FullName(p) = argv[1] =>
                usage = {FullName(Append(p, k)) :
                            k \in Keys(NodeAt(InitConfig.Commands, p).Commands)}

\* The list of commands of group was printed: its two children, neither the
\* grandchild group:inner:leaf nor the top-level subtask, which are both
\* registered.
C20_GroupListed ==
    /\ phase = "exit"
    /\ argv = <<<<"group">>, "--help">>
    /\ usage = {<<"group", ":", "subtask">>, <<"group", ":", "inner">>}
    /\ Registered(<<"subtask">>) # {}
    /\ Registered(<<"group", ":", "inner", ":", "leaf">>) # {}
    /\ Registered(<<"subtask">>) # Registered(<<"group", ":", "subtask">>)

----------------------------------------------------------------------------
(* Claims about the exit status (Spec) *)

\* The phase of the process that failed, from what the process did.
LoadFailed == LoadReturned /\ loaded.err # nilError

BuildFailed ==
    /\ phase = "exit"
    /\ loaded.err = nilError
    /\ buildCommandsFromConfigFailures(InitConfig) # {}

RunStarted == argv # <<>> \/ execd # NilPtr \/ usage # {}

\* C21: a process that failed exits with 2 exactly when loading failed, with
\* 3 exactly when building the commands failed and with 1 only when the
\* command line was run; after a failed load nothing is built, after a
\* failed load or build nothing is run.
C21_StatusNamesPhase ==
    /\ exitCode \in {-1, 0, 1, 2, 3}
    /\ LoadFailed => (exitCode = 2 /\ rootCmd = {} /\ ~RunStarted)
    /\ BuildFailed => (exitCode = 3 /\ rootCmd = {} /\ ~RunStarted)
    /\ (phase = "exit" /\ exitCode = 2) => LoadFailed
    /\ (phase = "exit" /\ exitCode = 3) => BuildFailed
    /\ (phase = "exit" /\ exitCode = 1) => (~LoadFailed /\ ~BuildFailed /\ RunStarted)

----------------------------------------------------------------------------
(* Claims about the usage line (SpecArgs) *)

\* The placeholder the usage conventions give a definition of minimum min
\* whose maximum is 1 (many = FALSE) or is greater than 1 or absent.
Placeholder(var, min, many) ==
    IF min >= 1
    THEN IF many THEN <<ToUpper(var), "...">> ELSE <<ToUpper(var)>>
    ELSE IF many THEN <<"[", ToUpper(var), "...", "]">>
         ELSE <<"[", ToUpper(var), "]">>

DeclaredMany(def) == DeclaredUnbounded(def) \/ DeclaredMax(def) > 1

\* C22: the placeholder of a validated definition in the usage line depends
\* only on its arity: NAME for min 1 and max 1, [NAME] for min 0 and max 1,
\* NAME... for min >= 1 and a maximum that is absent or greater than 1,
\* [NAME...] for min 0 and such a maximum, NAME being the upper-cased
\* variable name.
C22_UsagePlaceholder ==
    aUse # <<>> =>
        /\ Len(aUse) = Len(aDefs) + 1
        /\ \A i \in 1..Len(aDefs) :
            (DeclaredUnbounded(aDefs[i]) \/ DeclaredMax(aDefs[i]) >= 1) =>
                aUse[i + 1] = Placeholder(aDefs[i].Var, ArgAtLeast(aDefs[i]),
                                          DeclaredMany(aDefs[i]))

\* A usage line with an optional variadic placeholder and a ToUpper that
\* changed the name.
C22_OptionalVariadicShown ==
    /\ Len(aUse) = 3
    /\ aUse[2] = <<"[", "V1", "...", "]">>
    /\ aUse[3] = <<"V2">>
    /\ aDefs[1].Var = "v1"

----------------------------------------------------------------------------
(* Claims about slot filling (SpecArgs) *)

\* The number of arguments the slices before definition i consumed.
RECURSIVE ConsumedBefore(_)
ConsumedBefore(i) ==
    IF i <= 1 THEN 0
    ELSE ConsumedBefore(i - 1) + SliceLen(aEnv[i - 1].value)

\* The sum of the minimum counts of the definitions after i.
MinAfter(i) == SumOver(ArgAtLeast, aDefs, i + 1)

Available(i) == Len(aArgs) - ConsumedBefore(i)

Smaller(x, y) == IF x < y THEN x ELSE y

\* C23: slot filling is greedy from left to right: for an accepted call the
\* slice of definition i has exactly min(max_i, available_i - minAfter_i)
\* elements, and exactly available_i - minAfter_i when the definition has no
\* maximum.
C23_GreedySlices ==
    aPhase = "bound" =>
        \A i \in 1..Len(aDefs) :
            SliceLen(aEnv[i].value) =
                IF DeclaredUnbounded(aDefs[i])
                THEN Available(i) - MinAfter(i)
                ELSE Smaller(DeclaredMax(aDefs[i]), Available(i) - MinAfter(i))

\* A variadic definition: no maximum, or a maximum above its minimum.
Variadic(def) == DeclaredUnbounded(def) \/ DeclaredMax(def) > ArgAtLeast(def)

\* The counts the count check accepts for the definitions.
AcceptedCounts(defs) == {n \in 0..MaxArgs : argsMatchDefs(defs, n) = NoError}

\* The length of the slice definition i is bound to in a call with the
\* first n tokens.
SliceLenAt(defs, n, i) == SliceLen(argEnvVars(defs, SubSeq(Tokens, 1, n))[i].value)

\* C24: when a command declares two or more variadic definitions, every
\* variadic definition but the last is bound to the same number of
\* arguments for every accepted count N: in a bound call it has the length
\* it has for every other accepted count.
C24_OnlyLastVaries ==
    aPhase = "bound" =>
        \A i \in 1..Len(aDefs) :
            (/\ Variadic(aDefs[i])
             /\ \E j \in (i + 1)..Len(aDefs) : Variadic(aDefs[j]))
            => \A n \in AcceptedCounts(aDefs) :
                   SliceLenAt(aDefs, n, i) = SliceLen(aEnv[i].value)

\* C24 as amended: every variadic definition after the first definition
\* without a maximum is bound to exactly its minimum count in every
\* accepted call; the surplus goes to the earlier definitions.
C24_LaterVariadicsGetMinimum ==
    aPhase = "bound" =>
        \A i \in 1..Len(aDefs) :
            (/\ Variadic(aDefs[i])
             /\ \E j \in 1..(i - 1) : DeclaredUnbounded(aDefs[j]))
            => SliceLen(aEnv[i].value) = ArgAtLeast(aDefs[i])

\* Two definitions without a maximum and a call with two arguments more
\* than the minimum: the first is bound to the surplus.
C24_SurplusGoesLeft ==
    /\ aPhase = "bound"
    /\ Len(aDefs) = 2
    /\ DeclaredUnbounded(aDefs[1]) /\ DeclaredUnbounded(aDefs[2])
    /\ ArgAtLeast(aDefs[2]) = 1
    /\ Len(aArgs) = MinTotal(aDefs) + 2
    /\ SliceLen(aEnv[1].value) = ArgAtLeast(aDefs[1]) + 2
    /\ SliceLen(aEnv[2].value) = 1

----------------------------------------------------------------------------
(* Claims about the partition of the arguments (SpecArgs) *)

\* The elements of a slice, from its space-joined value.
SliceItems(value) == [k \in 1..SliceLen(value) |-> value[2 * k - 1]]

\* The slices of the first i definitions, one after the other.
RECURSIVE SlicesJoined(_)
SlicesJoined(i) ==
    IF i = 0 THEN <<>>
    ELSE SlicesJoined(i - 1) \o SliceItems(aEnv[i].value)

\* The cursor of argEnvVars stays in range and moves over consecutive
\* slices from 0 to the number of arguments.
CursorPartitions(defs, n) ==
    LET sl == argSlices(defs, n)
    IN  /\ \A i \in 1..Len(defs) :
               /\ 0 <= sl[i].a /\ sl[i].a <= sl[i].aNext /\ sl[i].aNext <= n
               /\ sl[i].a = IF i = 1 THEN 0 ELSE sl[i - 1].aNext
        /\ Len(defs) > 0 => sl[Len(defs)].aNext = n

\* C28: for every call the count check accepted, argEnvVars splits the
\* arguments into consecutive slices, one per definition in declared
\* order, that cover every argument exactly once, with 0 <= a <= aNext <= N
\* at every step; the slices joined in order are the list ARGS holds; and
\* the run closure binds arguments only after the check accepted the call.
C28_SlicesPartitionArgs ==
    /\ [](aPhase # "panic")
    /\ [](aPhase = "accepted" => CursorPartitions(aDefs, Len(aArgs)))
    /\ [](aPhase = "bound" =>
            /\ Len(aEnv) = Len(aDefs) + 1
            /\ SlicesJoined(Len(aDefs)) = aArgs
            /\ JoinSpace(SlicesJoined(Len(aDefs))) = aEnv[Len(aEnv)].value
            /\ aEnv[Len(aEnv)].name = "ARGS"
            /\ argsMatchDefs(aDefs, Len(aArgs)) = NoError)
    /\ [][aPhase' \in {"bound", "panic"} => aPhase = "accepted"]_vars

\* A call with three arguments bound to two definitions, both slices
\* holding arguments.
C28_TwoSlicesBound ==
    /\ aPhase = "bound"
    /\ Len(aDefs) = 2
    /\ Len(aArgs) = 3
    /\ aEnv[1].value # <<>>
    /\ aEnv[2].value # <<>>

----------------------------------------------------------------------------
(* Claims about sibling imports (Spec) *)

\* The user document is resolved and it imports b.yml and then d.yml, two
\* documents without imports of their own.
SiblingsResolved ==
    /\ phase = "project"
    /\ userCfg # NilPtr
    /\ FileAt(userConfigPath).cfg.Imports = <<ImportB, ImportD>>
    /\ FileAt(userImportPath).cfg.Imports = <<>>
    /\ FileAt(userImport2Path).cfg.Imports = <<>>

\* The keys both imports define and the importing document does not.
SharedKeys(field(_)) ==
    (Keys(field(FileAt(userImportPath).cfg)) \cap Keys(field(FileAt(userImport2Path).cfg)))
        \ Keys(field(FileAt(userConfigPath).cfg))

EnvironmentOf(cfg) == cfg.Environment

AliasesOf(cfg) == cfg.Aliases

CommandsOf(cfg) == cfg.Commands

\* C25: when two sibling imports of a document define the same key and the
\* document does not, the resolved document has the value of the import
\* declared later in the list: for environment variables, for aliases and
\* for the fields of a command both imports define.
C25_LaterSiblingWins ==
    SiblingsResolved =>
        LET later == FileAt(userImport2Path).cfg
            resolved == Deref(userCfg)
        IN  /\ \A k \in SharedKeys(EnvironmentOf) :
                   resolved.Environment.kv[k] = later.Environment.kv[k]
            /\ \A k \in SharedKeys(AliasesOf) :
                   resolved.Aliases.kv[k] = later.Aliases.kv[k]
            /\ \A k \in SharedKeys(CommandsOf) :
                   /\ resolved.Commands.kv[k].Short = later.Commands.kv[k].Short
                   /\ resolved.Commands.kv[k].Script = later.Commands.kv[k].Script

----------------------------------------------------------------------------
(* Claims about the chain of imports (Spec) *)

\* The chain is the root document followed by the import each activation
\* of loadImports below the top one is expanding.
ChainIsPath ==
    /\ Len(parents) = Len(stack)
    /\ \A k \in 1..(Len(stack) - 1) :
          /\ stack[k].i <= Len(stack[k].config.Imports)
          /\ parents[k + 1] = stack[k].config.Imports[stack[k].i]

\* The root document of the resolution that is running or has failed.
ResolvedRoot ==
    IF ProjectStage THEN Import(findProjectConfig, "") ELSE Import(userConfigPath, "")

\* A document served under a URL declares a file import: a reference that
\* no resolution accepts, and no edge of the import graph.
UrlDeclaresFile ==
    \E u \in DOMAIN net :
        /\ net[u].kind = "yaml"
        /\ \E i \in 1..Len(net[u].cfg.Imports) : net[u].cfg.Imports[i].File # <<>>

\* C26: cycle detection compares an import with the chain of the imports
\* being expanded only: the chain holds no finished sibling, and where
\* every reference is one a resolution accepts the cyclic-dependency error
\* is given only if the references contain a cycle, so a document imported
\* along two branches or by two siblings does not fail the load.
C26_ChainOnly ==
    /\ phase \in {"user", "project"} => ChainIsPath
    /\ (phase = "exit" /\ loaded = CyclicError /\ ~UrlDeclaresFile)
          => HasCycle(ResolvedRoot)

\* The user document imports b.yml and d.yml, both import the URL, and the
\* resolution has reached the second import of the URL with a chain that
\* does not hold b.yml.
C26_SecondBranch ==
    /\ phase = "user"
    /\ Len(stack) = 3
    /\ parents = <<Import(userConfigPath, ""), ImportD, ImportU>>
    /\ FileAt(userImportPath).cfg.Imports = <<ImportU>>

----------------------------------------------------------------------------
(* Claims about the script cache (Spec) *)

\* The command the command line names, and the text of its script file.
CommandRun == (CHOOSE c \in Registered(argv[1]) : TRUE).command

ScriptTextOf(command) ==
    buildScript(IF command.Exec = "" THEN defaultExecPath ELSE command.Exec,
                command.Script)

\* C27: over one invocation after another, the key of a script is the hash
\* of the interpreter line (the declared exec, /bin/sh by default) followed
\* by the script body; a file of the script cache is written only when no
\* file exists under the key and is never rewritten; and the process image
\* is only ever replaced by a file that holds exactly the full script text,
\* also after an earlier invocation whose cache write failed.
C27_ScriptCacheProtocol ==
    /\ [](execd # NilPtr =>
            /\ Deref(execd).path = sha1HexString(ScriptTextOf(CommandRun))
            /\ Deref(execd).text = ScriptTextOf(CommandRun))
    /\ [][\A p \in DOMAIN scriptsDir.files :
              p \in DOMAIN scriptsDir'.files => scriptsDir'.files[p] = scriptsDir.files[p]]_vars

----------------------------------------------------------------------------
(* Claims about faults of the merge (SpecMerge) *)

\* C29: merging two parsed documents completes without a runtime fault and
\* gives a document, also when both define a command c and the base's c
\* declares no flags or no nested commands while the override's c declares
\* some.
C29_MergeCompletes == mPhase \in {"init", "merged", "merged twice"}

----------------------------------------------------------------------------
(* Claims about a cached import that does not load (Spec) *)

\* The import cache holds an entry for the URL that fails to parse or to
\* validate.
BadEntry(u) ==
    /\ CacheHolds(u)
    /\ parseConfig(importsDir.files[sha1HexString(u)]).err # nilError

=============================================================================
